---- MODULE Spec2Model ----
(***************************************************************************)
(* Method layering and dispatch of hexya models (src/src/models/methods.go)*)
(* A Model owns a MethodsCollection (registry of Methods by name); a       *)
(* Method owns a chain of methodLayers (topLayer + nextLayer map), a       *)
(* methodType and two permission sets (groups, groupsCallers).             *)
(***************************************************************************)
EXTENDS Integers, Sequences, FiniteSets, TLC

\* ------------------------------------------------------------------------
\* Bounds of the model
\* ------------------------------------------------------------------------

\* Largest number of layers the modules register (NewMethod / Extend).
MaxLayers == 3

\* Largest depth of the call stack of one invocation.
MaxDepth == 3

\* Largest depth of the call stack when methods call one another by name.
MaxNesting == 2

\* ------------------------------------------------------------------------
\* The static universe: models, their mixins, method names, functions
\* ------------------------------------------------------------------------

\* Models of the registry.  "User" mixes in "Addr", which mixes in "Base".
Models == {"User", "Addr", "Base"}

\* Model.mixins: the ordered list of mixin models of each model.
mixins(m) ==
    CASE m = "User" -> <<"Addr">>
      [] m = "Addr" -> <<"Base">>
      [] OTHER      -> << >>

\* Method names used by the modules.  "Write" is one of unauthorizedMethods.
MethodNames == {"Greet", "Write"}

\* unauthorizedMethods: no execution permission by default.
unauthorizedMethods == {"Load", "Create", "Write", "Unlink"}

\* security.GroupEveryone
GroupEveryone == "everyone"

\* reflect.Type of a fnct: In (receiver first), Out, IsVariadic.
\* kind is reflect.Kind(): "func" or something else.
FuncType(in, out, variadic) ==
    [kind |-> "func", in |-> in, out |-> out, variadic |-> variadic]

\* The nil reflect.Type (Method.methodType before any layer is known).
NilType == [kind |-> "nil", in |-> << >>, out |-> << >>, variadic |-> FALSE]

\* Go types appearing in the signatures:
\*   RC        *RecordCollection        RecordSet    interface
\*   UserSet   typed record set         AddrSet      typed record set
\*   FieldMap  FieldMap                 FieldMapper  interface
\*   UserData  typed data (a FieldMapper)
\*   Cond      *Condition               Conditioner  interface
\*   UserCond  typed condition struct embedding *Condition (a Conditioner)
Types == {"RC", "RecordSet", "UserSet", "AddrSet", "FieldMap", "FieldMapper",
          "UserData", "Cond", "Conditioner", "UserCond", "int", "bool",
          "string"}

\* The types whose Kind() is reflect.Interface.
InterfaceTypes == {"RecordSet", "FieldMapper", "Conditioner"}

\* type.Implements(iface) of reflect, for the types of the universe.
Implements(t, iface) ==
    \/ t = iface /\ iface \in InterfaceTypes
    \/ iface = "RecordSet" /\ t \in {"RC", "UserSet", "AddrSet"}
    \/ iface = "FieldMapper" /\ t \in {"FieldMap", "UserData"}
    \/ iface = "Conditioner" /\ t \in {"Cond", "UserCond"}

\* The functions modules pass to NewMethod / Extend, with their Go types:
\*   fBase  func(UserSet, UserSet) string
\*   fGen   func(*RecordCollection, *RecordCollection) string
\*   fInt   func(UserSet, int) string
\*   fBad   func(int, bool) string           (receiver is no RecordSet)
Fncts == {"fBase", "fGen", "fInt", "fBad"}

\* The functions of the signature specification, beside those above:
\*   fAddr   func(AddrSet, AddrSet) string
\*   fRecv   func(AddrSet, UserSet) string
\*   fMap    func(UserSet, FieldMap) string
\*   fData   func(UserSet, UserData) string
\*   fCond   func(UserSet, *Condition) string
\*   fUCond  func(UserSet, UserCond) string
\*   fCondr  func(UserSet, Conditioner) string
\*   fVar    func(UserSet, ...UserSet) string
\*   fTwo    func(UserSet, UserSet, int) string
\*   fOut2   func(UserSet, UserSet) (string, int)
\*   fOutI   func(UserSet, UserSet) int
SigFncts == Fncts \cup {"fAddr", "fRecv", "fMap", "fData", "fCond", "fUCond",
                        "fCondr", "fVar", "fTwo", "fOut2", "fOutI"}

\* The functions of the evaluation specification, with what their bodies do:
\*   eHello   func(UserSet) string            returns "Hello"
\*   eNames   func(UserSet) string            returns the names of its records
\*   eHi      func(UserSet) string            returns "Hi, " + rs.Super()
\*   eSubset  func(UserSet) string            returns Super() of Jane and John
\*   eBoom    func(UserSet) string            writes, then panics with "Boom"
\*   eLog     func(UserSet) string            writes, rs.Super(), writes again
\*   ePair    func(UserSet) (string, int)     returns "Hello", 7
\*   eOpts    func(UserSet, string, ...string) string
\*                                            returns its string and its options
\*   eTag     func(UserSet, string) string    returns "#" and its string
FnctType(f) ==
    CASE f = "fBase" -> FuncType(<<"UserSet", "UserSet">>, <<"string">>, FALSE)
      [] f = "fGen"  -> FuncType(<<"RC", "RC">>, <<"string">>, FALSE)
      [] f = "fInt"  -> FuncType(<<"UserSet", "int">>, <<"string">>, FALSE)
      [] f = "fAddr" -> FuncType(<<"AddrSet", "AddrSet">>, <<"string">>, FALSE)
      [] f = "fRecv" -> FuncType(<<"AddrSet", "UserSet">>, <<"string">>, FALSE)
      [] f = "fMap"  -> FuncType(<<"UserSet", "FieldMap">>, <<"string">>, FALSE)
      [] f = "fData" -> FuncType(<<"UserSet", "UserData">>, <<"string">>, FALSE)
      [] f = "fCond" -> FuncType(<<"UserSet", "Cond">>, <<"string">>, FALSE)
      [] f = "fUCond" -> FuncType(<<"UserSet", "UserCond">>, <<"string">>, FALSE)
      [] f = "fCondr" -> FuncType(<<"UserSet", "Conditioner">>, <<"string">>, FALSE)
      [] f = "fVar"  -> FuncType(<<"UserSet", "UserSet">>, <<"string">>, TRUE)
      [] f = "fTwo"  -> FuncType(<<"UserSet", "UserSet", "int">>, <<"string">>, FALSE)
      [] f = "fOut2" -> FuncType(<<"UserSet", "UserSet">>, <<"string", "int">>, FALSE)
      [] f = "fOutI" -> FuncType(<<"UserSet", "UserSet">>, <<"int">>, FALSE)
      [] f \in {"eHello", "eNames", "eHi", "eSubset", "eBoom", "eLog"}
                     -> FuncType(<<"UserSet">>, <<"string">>, FALSE)
      [] f = "ePair" -> FuncType(<<"UserSet">>, <<"string", "int">>, FALSE)
      [] f = "eOpts" -> FuncType(<<"UserSet", "string", "string">>, <<"string">>, TRUE)
      [] f = "eTag"  -> FuncType(<<"UserSet", "string">>, <<"string">>, FALSE)
      [] OTHER       -> FuncType(<<"int", "bool">>, <<"string">>, FALSE)

\* ------------------------------------------------------------------------
\* State
\* ------------------------------------------------------------------------
VARIABLES
    registry,      \* registry[m]: MethodsCollection.registry of model m
    layers,        \* every methodLayer allocated so far; its index is its address
    bootstrapped,  \* bootstrapped[m]: MethodsCollection.bootstrapped of model m
    callStack,     \* the frames of the running invocation, innermost last
    role,          \* the group the running invocation executes under
    ran,           \* <<layer, via>> of every layer entered in the invocation
    supered,       \* the layers whose body has called Super in the invocation
    lastOp,        \* the entry point called last
    lastErr,       \* how it ended: "ok" or the panic it raised
    mutex,         \* the sync.RWMutex of one Method: its writer and its readers
    thr,           \* the goroutines that grant, revoke and check on that Method
    stacks,        \* stacks[t]: the frames of the invocation goroutine t runs
    outcome,       \* the last invocation run as a whole: results, panic, events
    backing,       \* the arrays allocated for the predicates of Conditions
    conds,         \* every Condition made so far: the slice header of predicates
    views,         \* Collection.views: the View of each id
    orderedViews   \* Collection.orderedViews: the list of Views of each model

vars == <<registry, layers, bootstrapped, callStack, role, ran, supered,
          lastOp, lastErr, mutex, thr, stacks, outcome,
          backing, conds, views, orderedViews>>

\* The conditions and the views, which no entry point of the registry touches.
dataVars == <<backing, conds, views, orderedViews>>

\* The part of the state the goroutines and whole invocations work on, and
\* the conditions and views.
auxVars == <<mutex, thr, stacks, outcome, dataVars>>

\* ------------------------------------------------------------------------
\* Method and methodLayer
\* ------------------------------------------------------------------------

\* The nil *methodLayer.
NilLayer == 0

\* The element of a one-element set: The({e(x) : x \in {v}}) is e with x
\* bound to the value of v, computed once.
The(S) == CHOOSE x \in S : TRUE

\* A map with one more (or one overwritten) entry; maps are sets of <<k, v>>.
MapPut(map, k, v) == {p \in map : p[1] # k} \cup {<<k, v>>}

\* &Method{model, name, nextLayer: make(..), groups: make(..), groupsCallers: make(..)}
newMethod(m, n) ==
    [name |-> n, model |-> m, methodType |-> NilType, topLayer |-> NilLayer,
     nextLayer |-> {}, groups |-> {}, groupsCallers |-> {}]

\* copyMethod that carries the policy of the given method over.
copyMethod_keepPolicy(m, method) ==
    [name |-> method.name, model |-> m, methodType |-> method.methodType,
     topLayer |-> NilLayer, nextLayer |-> {},
     groups |-> method.groups, groupsCallers |-> method.groupsCallers]

\* copyMethod that also takes the layers of the given method.
copyMethod_withLayers(m, method) ==
    [name |-> method.name, model |-> m, methodType |-> method.methodType,
     topLayer |-> method.topLayer, nextLayer |-> method.nextLayer,
     groups |-> {}, groupsCallers |-> {}]

\* copyMethod: a new method without any layer for model m, taking name and
\* methodType from the given method.
copyMethod(m, method) ==
    [name |-> method.name, model |-> m, methodType |-> method.methodType,
     topLayer |-> NilLayer, nextLayer |-> {}, groups |-> {}, groupsCallers |-> {}]

\* getNextLayer with a wrong fallback: a layer without entry is its own next.
getNextLayer_selfWhenAbsent(meth, l) ==
    IF \E p \in meth.nextLayer : p[1] = l
    THEN (CHOOSE p \in meth.nextLayer : p[1] = l)[2]
    ELSE l

\* getNextLayer that follows two links where it can.
getNextLayer_skipping(meth, l) ==
    LET one == IF \E p \in meth.nextLayer : p[1] = l
               THEN (CHOOSE p \in meth.nextLayer : p[1] = l)[2] ELSE 0
    IN IF \E p \in meth.nextLayer : p[1] = one
       THEN (CHOOSE p \in meth.nextLayer : p[1] = one)[2]
       ELSE one

\* Method.getNextLayer: m.nextLayer[methodLayer], nil when the key is absent.
getNextLayer(meth, l) ==
    IF \E p \in meth.nextLayer : p[1] = l
    THEN (CHOOSE p \in meth.nextLayer : p[1] = l)[2]
    ELSE NilLayer

RECURSIVE layersFrom(_, _)
\* The loop of invertedLayers: the chain from cl down, bottom layer first.
layersFrom(meth, cl) ==
    IF cl = NilLayer THEN << >>
    ELSE Append(layersFrom(meth, getNextLayer(meth, cl)), cl)

\* invertedLayers that stops after the top layer.
invertedLayers_topOnly(meth) ==
    IF meth.topLayer = 0 THEN << >> ELSE <<meth.topLayer>>

\* Method.invertedLayers: layers from the base method up to the top layer.
invertedLayers(meth) == layersFrom(meth, meth.topLayer)

\* AllowGroup whose caller-scoped grant also grants the group from any caller.
allowGroup_alsoUnconditional(meth, group, callers) ==
    [meth EXCEPT !.groups = @ \cup {group},
                 !.groupsCallers = @ \cup {<<c, group>> : c \in callers}]

\* Method.AllowGroup on a method value.
allowGroup(meth, group, callers) ==
    IF callers = {}
    THEN [meth EXCEPT !.groups = @ \cup {group}]
    ELSE [meth EXCEPT !.groupsCallers = @ \cup {<<c, group>> : c \in callers}]

\* RevokeGroup that leaves the caller-scoped grants of the group.
revokeGroup_keepCallers(meth, group) ==
    [meth EXCEPT !.groups = @ \ {group}]

\* RevokeGroup that empties Method.groups, whatever the group.
revokeGroup_everyGroup(meth, group) ==
    [meth EXCEPT !.groups = {},
                 !.groupsCallers = {cg \in @ : cg[2] # group}]

\* Method.RevokeGroup on a method value.
revokeGroup(meth, group) ==
    [meth EXCEPT !.groups = @ \ {group},
                 !.groupsCallers = {cg \in @ : cg[2] # group}]

\* addMethodLayer that sets topLayer only when the method has none yet.
addMethodLayer_keepTop(meth, heap, fnct) ==
    LET ml == Len(heap) + 1
        rec == [method |-> <<meth.model, meth.name>>, mixedIn |-> FALSE,
                funcValue |-> fnct]
    IN [meth |-> [meth EXCEPT
                    !.nextLayer = IF meth.topLayer # 0
                                  THEN MapPut(@, ml, meth.topLayer) ELSE @,
                    !.topLayer = IF meth.topLayer # 0 THEN @ ELSE ml],
        layers |-> Append(heap, rec)]

\* Method.addMethodLayer: allocate a layer for fnct and make it the top layer,
\* linked to the previous top layer.  Returns the method and the heap.
addMethodLayer(meth, heap, fnct) ==
    LET ml == Len(heap) + 1
        rec == [method |-> <<meth.model, meth.name>>, mixedIn |-> FALSE,
                funcValue |-> fnct]
    IN [meth |-> [meth EXCEPT
                    !.nextLayer = IF meth.topLayer # NilLayer
                                  THEN MapPut(@, ml, meth.topLayer) ELSE @,
                    !.topLayer = ml],
        layers |-> Append(heap, rec)]

\* ------------------------------------------------------------------------
\* MethodsCollection
\* ------------------------------------------------------------------------

\* registry[m][n] = meth
RegPut(reg, m, n, meth) ==
    [reg EXCEPT ![m] = [k \in (DOMAIN reg[m]) \cup {n} |->
                            IF k = n THEN meth ELSE reg[m][k]]]

\* set that does not compare the model of the method with its own.
set_noModelCheck(reg, m, n, meth) ==
    [reg |-> RegPut(reg, m, n,
                    IF n \notin unauthorizedMethods
                    THEN allowGroup(meth, GroupEveryone, {})
                    ELSE meth),
     err |-> "ok"]

\* set that grants GroupEveryone whatever the name of the method.
set_grantAlways(reg, m, n, meth) ==
    IF m # meth.model
    THEN [reg |-> reg, err |-> "SetOtherModel"]
    ELSE [reg |-> RegPut(reg, m, n, allowGroup(meth, GroupEveryone, {})),
          err |-> "ok"]

\* MethodsCollection.set: panics when the method belongs to another model,
\* else stores it and grants GroupEveryone unless the name is unauthorized.
set(reg, m, n, meth) ==
    IF m # meth.model
    THEN [reg |-> reg, err |-> "SetOtherModel"]
    ELSE [reg |-> RegPut(reg, m, n,
                         IF n \notin unauthorizedMethods
                         THEN allowGroup(meth, GroupEveryone, {})
                         ELSE meth),
          err |-> "ok"]

RECURSIVE get(_, _, _, _)
RECURSIVE findMethodInMixin(_, _, _, _)
RECURSIVE findInMixinsFrom(_, _, _, _, _)

\* get that tests the bootstrapped flag before it reads the registry.
get_bootstrappedFirst(reg, boot, m, n) ==
    IF boot[m]
    THEN [reg |-> reg, found |-> FALSE, inModel |-> FALSE]
    ELSE IF n \in DOMAIN reg[m]
    THEN [reg |-> reg, found |-> TRUE, inModel |-> TRUE]
    ELSE The({
         IF ~r.found
         THEN [reg |-> r.reg, found |-> FALSE, inModel |-> FALSE]
         ELSE [reg |-> set(r.reg, m, n, copyMethod(m, r.reg[r.owner][n])).reg,
               found |-> TRUE, inModel |-> FALSE]
         : r \in {findMethodInMixin(reg, boot, m, n)}})

\* MethodsCollection.get: (found, inModel) and the registry after the lookup,
\* which before bootstrap copies a method found in a mixin into this model.
get(reg, boot, m, n) ==
    IF n \in DOMAIN reg[m]
    THEN [reg |-> reg, found |-> TRUE, inModel |-> TRUE]
    ELSE IF boot[m]
    THEN [reg |-> reg, found |-> FALSE, inModel |-> FALSE]
    ELSE The({
         IF ~r.found
         THEN [reg |-> r.reg, found |-> FALSE, inModel |-> FALSE]
         ELSE [reg |-> set(r.reg, m, n, copyMethod(m, r.reg[r.owner][n])).reg,
               found |-> TRUE, inModel |-> FALSE]
         : r \in {findMethodInMixin(reg, boot, m, n)}})

\* Model.findMethodInMixin: goes through the mixins in order; for each, looks
\* in its collection (Get) and then recursively in its own mixins.
findMethodInMixin(reg, boot, m, n) == findInMixinsFrom(reg, boot, m, n, 1)

\* The for loop of findMethodInMixin from the i-th mixin on.
findInMixinsFrom(reg, boot, m, n, i) ==
    IF i > Len(mixins(m))
    THEN [reg |-> reg, found |-> FALSE, owner |-> m]
    ELSE LET mixin == mixins(m)[i] IN
         The({
            IF g.found
            THEN [reg |-> g.reg, found |-> TRUE, owner |-> mixin]
            ELSE The({
                 IF r.found THEN r
                 ELSE findInMixinsFrom(r.reg, boot, m, n, i + 1)
                 : r \in {findMethodInMixin(g.reg, boot, mixin, n)}})
            : g \in {get(reg, boot, mixin, n)}})

\* ------------------------------------------------------------------------
\* Signature checks
\* ------------------------------------------------------------------------

\* checkTypesMatch for the types of the universe ("RC" is *RecordCollection).
checkTypesMatch(type1, type2) ==
    \/ type1 = type2
    \/ type1 = "RC" /\ Implements(type2, "RecordSet")
    \/ type2 = "RC" /\ Implements(type1, "RecordSet")
    \/ type1 = "FieldMap" /\ Implements(type2, "FieldMapper")
    \/ type2 = "FieldMap" /\ Implements(type1, "FieldMapper")
    \/ type2 \in InterfaceTypes /\ Implements(type1, type2)
    \/ type1 \in InterfaceTypes /\ Implements(type2, type1)

\* checkSignaturesMatch without the comparison of IsVariadic.
checkSignaturesMatch_noVariadic(methodType, fnctType) ==
    /\ Len(methodType.in) = Len(fnctType.in)
    /\ \A i \in 2..Len(methodType.in) :
           checkTypesMatch(methodType.in[i], fnctType.in[i])
    /\ Len(methodType.out) = Len(fnctType.out)
    /\ \A i \in 1..Len(methodType.out) :
           checkTypesMatch(methodType.out[i], fnctType.out[i])

\* Method.checkSignaturesMatch: TRUE when it does not panic.
checkSignaturesMatch(methodType, fnctType) ==
    /\ Len(methodType.in) = Len(fnctType.in)
    /\ \A i \in 2..Len(methodType.in) :
           checkTypesMatch(methodType.in[i], fnctType.in[i])
    /\ Len(methodType.out) = Len(fnctType.out)
    /\ \A i \in 1..Len(methodType.out) :
           checkTypesMatch(methodType.out[i], fnctType.out[i])
    /\ methodType.variadic = fnctType.variadic

\* checkMethodAndFnctType without the bootstrapped check.
checkMethodAndFnctType_noBootCheck(boot, meth, fnct) ==
    IF FnctType(fnct).kind # "func" THEN "InvalidFunction"
    ELSE IF Len(FnctType(fnct).in) = 0
            \/ ~Implements(FnctType(fnct).in[1], "RecordSet")
    THEN "InvalidFunction"
    ELSE "ok"

\* Method.checkMethodAndFnctType: the panic it raises, or "ok".
checkMethodAndFnctType(boot, meth, fnct) ==
    IF boot[meth.model] THEN "MutationAfterBootstrap"
    ELSE IF FnctType(fnct).kind # "func" THEN "InvalidFunction"
    ELSE IF Len(FnctType(fnct).in) = 0
            \/ ~Implements(FnctType(fnct).in[1], "RecordSet")
    THEN "InvalidFunction"
    ELSE "ok"

\* ------------------------------------------------------------------------
\* Declaring and extending methods
\* ------------------------------------------------------------------------

\* finalize without the check that the method has no layer yet.
finalize_noDuplicateCheck(reg, heap, boot, m, n, fnct) ==
    LET meth == reg[m][n]
        chk == checkMethodAndFnctType(boot, meth, fnct)
    IN IF chk # "ok"
       THEN [reg |-> reg, layers |-> heap, err |-> chk]
       ELSE The({
            [reg |-> RegPut(reg, m, n,
                            [a.meth EXCEPT !.methodType = FnctType(fnct)]),
             layers |-> a.layers, err |-> "ok"]
            : a \in {addMethodLayer(meth, heap, fnct)}})

\* Method.finalize on registry[m][n]: adds fnct as first layer.
finalize(reg, heap, boot, m, n, fnct) ==
    LET meth == reg[m][n] IN
    IF meth.topLayer # NilLayer
    THEN [reg |-> reg, layers |-> heap, err |-> "DuplicateDeclaration"]
    ELSE LET chk == checkMethodAndFnctType(boot, meth, fnct) IN
         IF chk # "ok"
         THEN [reg |-> reg, layers |-> heap, err |-> chk]
         ELSE The({
              [reg |-> RegPut(reg, m, n,
                              [a.meth EXCEPT !.methodType = FnctType(fnct)]),
               layers |-> a.layers, err |-> "ok"]
              : a \in {addMethodLayer(meth, heap, fnct)}})

\* AddEmptyMethod without the bootstrapped check.
AddEmptyMethod_noBootCheck(reg, boot, m, n) ==
    The({
    IF g.found /\ g.inModel
    THEN [reg |-> g.reg, err |-> "DuplicateDeclaration"]
    ELSE set(g.reg, m, n,
             IF ~g.found THEN newMethod(m, n) ELSE g.reg[m][n])
    : g \in {get(reg, boot, m, n)}})

\* Model.AddEmptyMethod: creates a method without layer.
AddEmptyMethod(reg, boot, m, n) ==
    IF boot[m]
    THEN [reg |-> reg, err |-> "MutationAfterBootstrap"]
    ELSE The({
         IF g.found /\ g.inModel
         THEN [reg |-> g.reg, err |-> "DuplicateDeclaration"]
         ELSE set(g.reg, m, n,
                  IF ~g.found THEN newMethod(m, n) ELSE g.reg[m][n])
         : g \in {get(reg, boot, m, n)}})

\* NewMethod without the panic on a method that exists in a mixin only.
NewMethod_noMixinCheck(reg, heap, boot, m, n, fnct) ==
    The({
    IF ~g.found
    THEN The({
         IF e.err # "ok"
         THEN [reg |-> e.reg, layers |-> heap, err |-> e.err]
         ELSE finalize(e.reg, heap, boot, m, n, fnct)
         : e \in {AddEmptyMethod(g.reg, boot, m, n)}})
    ELSE finalize(g.reg, heap, boot, m, n, fnct)
    : g \in {get(reg, boot, m, n)}})

\* Model.NewMethod (and its alias addMethod): declares a new method.
NewMethod(reg, heap, boot, m, n, fnct) ==
    The({
    IF g.found /\ ~g.inModel
    THEN [reg |-> g.reg, layers |-> heap, err |-> "DuplicateDeclaration"]
    ELSE IF ~g.found
    THEN The({
         IF e.err # "ok"
         THEN [reg |-> e.reg, layers |-> heap, err |-> e.err]
         ELSE finalize(e.reg, heap, boot, m, n, fnct)
         : e \in {AddEmptyMethod(g.reg, boot, m, n)}})
    ELSE finalize(g.reg, heap, boot, m, n, fnct)
    : g \in {get(reg, boot, m, n)}})

\* Extend without the signature check.
Extend_noSignatureCheck(reg, heap, boot, m, n, fnct) ==
    LET meth == reg[m][n]
        chk == checkMethodAndFnctType(boot, meth, fnct)
    IN IF chk # "ok"
       THEN [reg |-> reg, layers |-> heap, err |-> chk]
       ELSE The({
            [reg |-> RegPut(reg, m, n, a.meth), layers |-> a.layers,
             err |-> "ok"]
            : a \in {addMethodLayer([meth EXCEPT !.methodType = FnctType(fnct)],
                                    heap, fnct)}})

\* Method.Extend on registry[m][n]: adds fnct as a new top layer.
Extend(reg, heap, boot, m, n, fnct) ==
    LET meth == reg[m][n]
        chk == checkMethodAndFnctType(boot, meth, fnct)
    IN IF chk # "ok"
       THEN [reg |-> reg, layers |-> heap, err |-> chk]
       ELSE IF meth.methodType # NilType
               /\ ~checkSignaturesMatch(meth.methodType, FnctType(fnct))
       THEN [reg |-> reg, layers |-> heap, err |-> "IncompatibleSignature"]
       ELSE The({
            [reg |-> RegPut(reg, m, n, a.meth), layers |-> a.layers,
             err |-> "ok"]
            : a \in {addMethodLayer([meth EXCEPT !.methodType = FnctType(fnct)],
                                    heap, fnct)}})

\* MustGet(n).Extend(fnct) that creates the method when MustGet finds none.
ExtendMethod_createWhenAbsent(reg, heap, boot, m, n, fnct) ==
    The({
    IF ~g.found
    THEN Extend(set(g.reg, m, n, newMethod(m, n)).reg, heap, boot, m, n, fnct)
    ELSE Extend(g.reg, heap, boot, m, n, fnct)
    : g \in {get(reg, boot, m, n)}})

\* MethodsCollection.MustGet(n).Extend(fnct): how a module extends a method.
ExtendMethod(reg, heap, boot, m, n, fnct) ==
    The({
    IF ~g.found
    THEN [reg |-> g.reg, layers |-> heap, err |-> "UnknownOperation"]
    ELSE Extend(g.reg, heap, boot, m, n, fnct)
    : g \in {get(reg, boot, m, n)}})

\* ------------------------------------------------------------------------
\* Grants on the CRUD methods of a collection
\* ------------------------------------------------------------------------

\* The loop of AllowAllToGroup from the i-th name of order on.  A range over
\* the map unauthorizedMethods visits its keys in an order Go leaves
\* unspecified: order is that order.  A name that get does not find raises
\* the panic, after the grants made for the names before it.
RECURSIVE AllowAllFrom(_, _, _, _, _, _)
AllowAllFrom(reg, boot, m, group, order, i) ==
    IF i > Len(order) THEN [reg |-> reg, err |-> "ok"]
    ELSE The({
         IF ~r.found THEN [reg |-> r.reg, err |-> "UnknownOperation"]
         ELSE AllowAllFrom(RegPut(r.reg, m, order[i],
                                  allowGroup(r.reg[m][order[i]], group, {})),
                           boot, m, group, order, i + 1)
         : r \in {get(reg, boot, m, order[i])}})

\* MethodsCollection.AllowAllToGroup.
AllowAllToGroup(reg, boot, m, group, order) ==
    AllowAllFrom(reg, boot, m, group, order, 1)

\* The loop of RevokeAllFromGroup from the i-th name of order on.
RECURSIVE RevokeAllFrom(_, _, _, _, _, _)
RevokeAllFrom(reg, boot, m, group, order, i) ==
    IF i > Len(order) THEN [reg |-> reg, err |-> "ok"]
    ELSE The({
         IF ~r.found THEN [reg |-> r.reg, err |-> "UnknownOperation"]
         ELSE RevokeAllFrom(RegPut(r.reg, m, order[i],
                                   revokeGroup(r.reg[m][order[i]], group)),
                            boot, m, group, order, i + 1)
         : r \in {get(reg, boot, m, order[i])}})

\* RevokeAllFromGroup that leaves out the name its range visits first.
RevokeAllFromGroup_skipFirst(reg, boot, m, group, order) ==
    RevokeAllFrom(reg, boot, m, group, order, 2)

\* MethodsCollection.RevokeAllFromGroup.
RevokeAllFromGroup(reg, boot, m, group, order) ==
    RevokeAllFrom(reg, boot, m, group, order, 1)

\* ------------------------------------------------------------------------
\* Bootstrap: mixin inflation and freeze
\* ------------------------------------------------------------------------

\* The target model's own layers of a chain, from cl down to the first
\* mixed-in layer (excluded), top first.
RECURSIVE ownLayersFrom(_, _, _)
ownLayersFrom(meth, heap, cl) ==
    IF cl = NilLayer \/ heap[cl].mixedIn THEN << >>
    ELSE <<cl>> \o ownLayersFrom(meth, heap, getNextLayer(meth, cl))

\* Copies the layers inv (bottom first) of a mixin method into method emi of
\* the target model, marked mixedIn and re-anchored to emi, beneath emi's own
\* layers and above the layers mixed in before.
RECURSIVE mixLayersIn(_, _, _, _, _)
mixLayersIn(emi, heap, inv, i, below) ==
    IF i > Len(inv)
    THEN [meth |-> emi, layers |-> heap, top |-> below]
    ELSE LET ml == Len(heap) + 1
             rec == [method |-> <<emi.model, emi.name>>, mixedIn |-> TRUE,
                     funcValue |-> heap[inv[i]].funcValue]
         IN The({mixLayersIn(e, h, inv, i + 1, ml)
                 : e \in {[emi EXCEPT !.nextLayer =
                             IF below # NilLayer THEN MapPut(@, ml, below) ELSE @]},
                   h \in {Append(heap, rec)}})

\* One method of a mixin mixed into model m.
addMixinMethod(reg, heap, m, mixin, n) ==
    LET src == reg[mixin][n]
        emi == IF n \in DOMAIN reg[m] THEN reg[m][n] ELSE copyMethod(m, src)
    IN The({
       LET firstMixed == IF own = << >> THEN emi.topLayer
                         ELSE getNextLayer(emi, own[Len(own)])
       IN The({
          LET linked == IF own = << >>
                        THEN [r.meth EXCEPT !.topLayer = r.top]
                        ELSE IF r.top = NilLayer THEN r.meth
                        ELSE [r.meth EXCEPT
                                !.nextLayer = MapPut(@, own[Len(own)], r.top)]
              typed == IF linked.methodType = NilType
                       THEN [linked EXCEPT !.methodType = src.methodType]
                       ELSE linked
          IN [reg |-> IF n \in DOMAIN reg[m] THEN RegPut(reg, m, n, typed)
                      ELSE set(reg, m, n, typed).reg,
              layers |-> r.layers]
          : r \in {mixLayersIn(emi, heap, inv, 1, firstMixed)}})
       : inv \in {invertedLayers(src)},
         own \in {ownLayersFrom(emi, heap, emi.topLayer)}})

\* All the methods of a mixin mixed into model m, one name after the other.
RECURSIVE addMixinMethods(_, _, _, _, _)
addMixinMethods(reg, heap, m, mixin, names) ==
    IF names = {} THEN [reg |-> reg, layers |-> heap]
    ELSE LET n == CHOOSE x \in names : TRUE IN
         The({addMixinMethods(r.reg, r.layers, m, mixin, names \ {n})
              : r \in {addMixinMethod(reg, heap, m, mixin, n)}})

\* Mixin inflation of model m: each mixin is inflated itself first, then its
\* methods are copied into m.  Every model is inflated once (done).
RECURSIVE inflateMixIns(_, _, _, _)
RECURSIVE inflateFrom(_, _, _, _, _)
inflateMixIns(reg, heap, done, m) ==
    IF m \in done THEN [reg |-> reg, layers |-> heap, done |-> done]
    ELSE The({[reg |-> r.reg, layers |-> r.layers, done |-> r.done \cup {m}]
              : r \in {inflateFrom(reg, heap, done, m, 1)}})

inflateFrom(reg, heap, done, m, i) ==
    IF i > Len(mixins(m)) THEN [reg |-> reg, layers |-> heap, done |-> done]
    ELSE LET mixin == mixins(m)[i] IN
         The({The({inflateFrom(b.reg, b.layers, a.done, m, i + 1)
                   : b \in {addMixinMethods(a.reg, a.layers, m, mixin,
                                            DOMAIN a.reg[mixin])}})
              : a \in {inflateMixIns(reg, heap, done, mixin)}})

\* Inflation of every model of the registry.
RECURSIVE inflateAll(_, _, _, _)
inflateAll(reg, heap, done, todo) ==
    IF todo = {} THEN [reg |-> reg, layers |-> heap]
    ELSE LET m == CHOOSE x \in todo : TRUE IN
         The({inflateAll(r.reg, r.layers, r.done, todo \ {m})
              : r \in {inflateMixIns(reg, heap, done, m)}})

\* BootStrap: one-shot; inflates the mixins and freezes every collection.
BootStrap(reg, heap, boot) ==
    IF \E m \in Models : boot[m]
    THEN [reg |-> reg, layers |-> heap, boot |-> boot,
          err |-> "AlreadyBootstrapped"]
    ELSE The({[reg |-> r.reg, layers |-> r.layers,
               boot |-> [m \in Models |-> TRUE], err |-> "ok"]
              : r \in {inflateAll(reg, heap, {}, Models)}})

\* ------------------------------------------------------------------------
\* Dispatch: Call and Super
\* ------------------------------------------------------------------------

\* The Method a layer belongs to (methodLayer.method).
methodOf(reg, heap, l) == reg[heap[l].method[1]][heap[l].method[2]]

\* The method whose layer is executing, or none for an external caller.
NoCaller == <<"", "">>

currentCaller(heap, stack) ==
    IF stack = << >> THEN NoCaller ELSE heap[stack[Len(stack)].layer].method

\* The execution permission check: an unconditional grant of the group
\* first, then a grant scoped to the calling method.
checkExecutionPermission(meth, group, caller) ==
    \/ group \in meth.groups
    \/ <<caller, group>> \in meth.groupsCallers

\* RecordCollection.CallMulti: resolves the method, checks the permission and
\* enters the top layer.  Returns the layer entered (NilLayer on a panic).
CallMulti(reg, heap, boot, stack, group, m, n) ==
    The({
    IF ~g.found THEN [layer |-> NilLayer, err |-> "UnknownOperation"]
    ELSE IF ~checkExecutionPermission(g.reg[m][n], group,
                                      currentCaller(heap, stack))
    THEN [layer |-> NilLayer, err |-> "Unauthorized"]
    ELSE IF g.reg[m][n].topLayer = NilLayer
    THEN [layer |-> NilLayer, err |-> "NoLayer"]
    ELSE [layer |-> g.reg[m][n].topLayer, err |-> "ok"]
    : g \in {get(reg, boot, m, n)}})

\* RecordCollection.Super: enters the layer next to the executing one.
Super(reg, heap, stack) ==
    LET cl == stack[Len(stack)].layer
        nl == getNextLayer(methodOf(reg, heap, cl), cl)
    IN IF nl = NilLayer THEN [layer |-> NilLayer, err |-> "NoSuperLayer"]
       ELSE [layer |-> nl, err |-> "ok"]

\* ------------------------------------------------------------------------
\* Execution of a layer: the wrapper of a layer function and what it calls
\* ------------------------------------------------------------------------

\* A Go value passed to or returned by a method: a string, an int, a
\* []string, the nil interface, or the zero reflect.Value ("invalid").
Value(k, s, l) == [k |-> k, s |-> s, l |-> l]

\* How an execution ends: the values returned, the panic raised ("ok" when
\* none) and what happened on the way, oldest first.
Result(vals, err, log) == [vals |-> vals, err |-> err, log |-> log]

\* One thing that happened: layer l was entered ("run"), called Super
\* ("super") or wrote to its records ("write"), with the records and the
\* arguments it had in hand.
Event(ev, l, ids, args) == [ev |-> ev, layer |-> l, ids |-> ids, args |-> args]

\* The Name field of the records the tests load.
RecordName(id) ==
    CASE id = 1 -> "Jane A. Smith" [] id = 2 -> "John Smith"
      [] OTHER -> "Will Smith"

RECURSIVE Concat(_)
Concat(strs) == IF strs = << >> THEN "" ELSE Head(strs) \o Concat(Tail(strs))

\* convertFunctionArg for the values above: nil becomes the zero value of
\* the parameter type (slot: the parameter is the variadic []string), any
\* other value goes through unchanged.
convertFunctionArg(fnctArgType, slot, arg) ==
    IF arg.k = "nil"
    THEN IF slot THEN Value("slice", "", << >>)
         ELSE Value(fnctArgType, IF fnctArgType = "int" THEN "0" ELSE "", << >>)
    ELSE arg

\* The receiver left as reflect.New made it: a record set without records.
wrapReceiver_unset(argZeroType, rc) == [type |-> argZeroType, ids |-> << >>]

\* argsVals[0]: rc itself for a *RecordCollection receiver, rc.Wrap(modelName)
\* for a typed one; either way the records of rc.
wrapReceiver(argZeroType, rc) == [type |-> argZeroType, ids |-> rc.ids]

\* The loop over the parameters without the break for an omitted slot.
convertArgs_noBreak(ft, args) ==
    IF Len(args) < Len(ft.in) - 1
    THEN [err |-> "IndexOutOfRange", vals |-> << >>]
    ELSE [err |-> "ok",
          vals |-> [i \in 1..Len(args) |->
                      IF i <= Len(ft.in) - 1
                      THEN convertFunctionArg(ft.in[i + 1],
                              ft.variadic /\ i = Len(ft.in) - 1, args[i])
                      ELSE Value("invalid", "", << >>)]]

\* The loop over the parameters that gives the zero value of the parameter
\* for a missing argument and leaves arguments beyond the parameters out.
convertArgs_padded(ft, args) ==
    [err |-> "ok",
     vals |-> [i \in 1..(Len(ft.in) - 1) |->
                 IF i <= Len(args)
                 THEN convertFunctionArg(ft.in[i + 1],
                         ft.variadic /\ i = Len(ft.in) - 1, args[i])
                 ELSE convertFunctionArg(ft.in[i + 1],
                         ft.variadic /\ i = Len(ft.in) - 1,
                         Value("nil", "", << >>))]]

\* argsVals[1..]: the loop over the parameters of the function. It stops
\* before the variadic parameter when the call gives no argument for it;
\* reading any other missing argument is an index out of range; arguments
\* beyond the parameters stay zero reflect.Values.
convertArgs(ft, args) ==
    LET numIn == Len(ft.in)
        omitted == ft.variadic /\ Len(args) = numIn - 2
    IN IF Len(args) < numIn - 1 /\ ~omitted
       THEN [err |-> "IndexOutOfRange", vals |-> << >>]
       ELSE [err |-> "ok",
             vals |-> [i \in 1..Len(args) |->
                         IF i <= numIn - 1
                         THEN convertFunctionArg(ft.in[i + 1],
                                 ft.variadic /\ i = numIn - 1, args[i])
                         ELSE Value("invalid", "", << >>)]]

\* fnctVal.CallSlice(argsVals) when the function is variadic and argsVals
\* has a value for every parameter, fnctVal.Call(argsVals) otherwise: the
\* arguments the function body receives (the variadic parameter as one
\* slice), or the panic of reflect on a wrong count or type.
reflectCall(ft, argsVals) ==
    LET numIn == Len(ft.in)
        n == Len(argsVals)
        fixed == IF ft.variadic THEN numIn - 2 ELSE numIn - 1
        okFixed == /\ n >= fixed
                   /\ \A i \in 1..fixed : argsVals[i].k = ft.in[i + 1]
    IN IF ft.variadic /\ n + 1 = numIn
       THEN IF okFixed /\ argsVals[n].k = "slice"
            THEN [err |-> "ok", vals |-> argsVals]
            ELSE [err |-> "reflect", vals |-> << >>]
       ELSE IF okFixed /\ n = fixed
            THEN [err |-> "ok",
                  vals |-> IF ft.variadic
                           THEN Append(argsVals, Value("slice", "", << >>))
                           ELSE argsVals]
            ELSE [err |-> "reflect", vals |-> << >>]

\* The results loop under a deferred recover: a panic of the function ends
\* as a return without values.
returnValues_recovering(r) ==
    IF r.err # "ok" THEN Result(<< >>, "ok", r.log)
    ELSE Result([i \in 1..Len(r.vals) |-> r.vals[i]], r.err, r.log)

\* The results loop that keeps the first returned value only.
returnValues_firstOnly(r) ==
    Result([i \in 1..(IF r.vals = << >> THEN 0 ELSE 1) |-> r.vals[i]],
           r.err, r.log)

\* res: every value the function returned, in order; a panic of the function
\* goes through the wrapper as it is.
returnValues(r) ==
    Result([i \in 1..Len(r.vals) |-> r.vals[i]], r.err, r.log)

RECURSIVE wrapFunctionForMethodLayer(_, _, _, _, _, _)
RECURSIVE superCall(_, _, _, _, _, _)

\* The bodies of the functions of the evaluation specification.
layerBody(reg, heap, l, recv, fargs, log) ==
    LET f == heap[l].funcValue
        str(s) == Value("string", s, << >>)
        write == Event("write", l, recv.ids, << >>)
    IN CASE f = "eHello" -> Result(<<str("Hello")>>, "ok", log)
         [] f = "eNames" ->
               Result(<<str(Concat([i \in 1..Len(recv.ids) |->
                                      RecordName(recv.ids[i])]))>>, "ok", log)
         [] f = "eHi" ->
               The({IF s.err # "ok" THEN s
                    ELSE Result(<<str("Hi, " \o s.vals[1].s)>>, "ok", s.log)
                    : s \in {superCall(reg, heap, l, recv.ids, << >>, log)}})
         [] f = "eSubset" ->
               superCall(reg, heap, l,
                         SelectSeq(recv.ids, LAMBDA id : id \in {1, 2}),
                         << >>, log)
         [] f = "eBoom" -> Result(<< >>, "Boom", Append(log, write))
         [] f = "eLog" ->
               The({IF s.err # "ok" THEN s
                    ELSE Result(s.vals, "ok", Append(s.log, write))
                    : s \in {superCall(reg, heap, l, recv.ids, << >>,
                                       Append(log, write))}})
         [] f = "ePair" ->
               Result(<<str("Hello"), Value("int", "7", << >>)>>, "ok", log)
         [] f = "eTag" -> Result(<<str("#" \o fargs[1].s)>>, "ok", log)
         [] OTHER ->
               Result(<<str(fargs[1].s \o Concat(fargs[2].l))>>, "ok", log)

\* rs.Super().M(args...) called by layer l on the records ids: the function
\* of the next layer of the method runs on those records with those
\* arguments.
superCall(reg, heap, l, ids, args, log) ==
    The({IF s.err # "ok" THEN Result(<< >>, s.err, log)
         ELSE wrapFunctionForMethodLayer(
                 reg, heap, s.layer,
                 [model |-> heap[l].method[1], ids |-> ids], args,
                 Append(log, Event("super", l, ids, args)))
         : s \in {Super(reg, heap, <<[layer |-> l, via |-> "call"]>>)}})

\* The methodLayerFunction wrapFunctionForMethodLayer builds for the function
\* of layer l, applied to rc and args.
wrapFunctionForMethodLayer(reg, heap, l, rc, args, log) ==
    LET ft == FnctType(heap[l].funcValue) IN
    The({IF a.err # "ok" THEN Result(<< >>, a.err, log)
         ELSE The({IF c.err # "ok" THEN Result(<< >>, c.err, log)
                   ELSE The({returnValues(
                                layerBody(reg, heap, l, recv, c.vals,
                                   Append(log, Event("run", l, recv.ids, c.vals))))
                             : recv \in {wrapReceiver(ft.in[1], rc)}})
                   : c \in {reflectCall(ft, a.vals)}})
         : a \in {convertArgs(ft, args)}})

\* rc.CallMulti(n, args...): the method is resolved and the permission
\* checked, then the function of the top layer runs.
callMulti(reg, heap, boot, group, rc, n, args) ==
    The({IF r.err # "ok" THEN Result(<< >>, r.err, << >>)
         ELSE wrapFunctionForMethodLayer(reg, heap, r.layer, rc, args, << >>)
         : r \in {CallMulti(reg, heap, boot, << >>, group, rc.model, n)}})

\* rc.Call(n, args...): (only) the first value CallMulti returns.
call(reg, heap, boot, group, rc, n, args) ==
    The({Result(SubSeq(r.vals, 1, IF r.vals = << >> THEN 0 ELSE 1), r.err, r.log)
         : r \in {callMulti(reg, heap, boot, group, rc, n, args)}})

\* ------------------------------------------------------------------------
\* Actions
\* ------------------------------------------------------------------------

\* The names and groups the modules of the layering specification use.
OpNames == {"Greet"}
Groups == {GroupEveryone, "admin"}

Init ==
    /\ registry = [m \in Models |-> [n \in {} |-> newMethod(m, n)]]
    /\ layers = << >>
    /\ bootstrapped = [m \in Models |-> FALSE]
    /\ callStack = << >>
    /\ role = GroupEveryone
    /\ ran = {}
    /\ supered = {}
    /\ lastOp = "init"
    /\ lastErr = "ok"
    /\ mutex = [w |-> "none", r |-> {}]
    /\ thr = [t \in {"t1", "t2", "t3"} |->
                [pc |-> "idle", op |-> "none", callers |-> {}, todo |-> {},
                 snap |-> newMethod("", ""), sawGroup |-> FALSE,
                 sawCallers |-> {}]]
    /\ stacks = [t \in {"t1", "t2"} |-> << >>]
    /\ outcome = [name |-> "", ids |-> << >>, args |-> << >>, multi |-> FALSE,
                  vals |-> << >>, err |-> "ok", log |-> << >>]
    /\ backing = << >>
    /\ conds = <<[arr |-> 0, len |-> 0]>>
    /\ views = [id \in {} |-> id]
    /\ orderedViews = [m \in {} |-> << >>]

dispatchVars == <<callStack, role, ran, supered>>

\* No invocation is running: modules load and BootStrap runs single-threaded.
Idle == callStack = << >>

\* A module calls model.NewMethod(n, fnct).
Declare(m, n, fnct) ==
    /\ Idle
    /\ \E r \in {NewMethod(registry, layers, bootstrapped, m, n, fnct)} :
       /\ Len(r.layers) <= MaxLayers \/ r.layers = layers
       /\ registry' = r.reg
       /\ layers' = r.layers
       /\ lastErr' = r.err
    /\ lastOp' = "declare"
    /\ UNCHANGED <<bootstrapped, dispatchVars>>
    /\ UNCHANGED auxVars

\* A module calls model.Methods().MustGet(n).Extend(fnct).
ExtendOp(m, n, fnct) ==
    /\ Idle
    /\ \E r \in {ExtendMethod(registry, layers, bootstrapped, m, n, fnct)} :
       /\ Len(r.layers) <= MaxLayers \/ r.layers = layers
       /\ registry' = r.reg
       /\ layers' = r.layers
       /\ lastErr' = r.err
    /\ lastOp' = "extend"
    /\ UNCHANGED <<bootstrapped, dispatchVars>>
    /\ UNCHANGED auxVars

\* A module looks a method up: model.Methods().Get(n).
Lookup(m, n) ==
    /\ Idle
    /\ \E g \in {get(registry, bootstrapped, m, n)} :
       /\ registry' = g.reg
       /\ lastErr' = IF g.found THEN "ok" ELSE "NotFound"
    /\ lastOp' = "get"
    /\ UNCHANGED <<layers, bootstrapped, dispatchVars>>
    /\ UNCHANGED auxVars

\* A module or an administrator calls
\* model.Methods().MustGet(n).AllowGroup(g, callers...).
GrantOp(m, n, g, callers) ==
    /\ Idle
    /\ \E r \in {get(registry, bootstrapped, m, n)} :
       /\ registry' = IF r.found
                      THEN RegPut(r.reg, m, n, allowGroup(r.reg[m][n], g, callers))
                      ELSE r.reg
       /\ lastErr' = IF r.found THEN "ok" ELSE "UnknownOperation"
    /\ lastOp' = "grant"
    /\ UNCHANGED <<layers, bootstrapped, dispatchVars>>
    /\ UNCHANGED auxVars

\* A module or an administrator calls model.Methods().MustGet(n).RevokeGroup(g).
RevokeOp(m, n, g) ==
    /\ Idle
    /\ \E r \in {get(registry, bootstrapped, m, n)} :
       /\ registry' = IF r.found
                      THEN RegPut(r.reg, m, n, revokeGroup(r.reg[m][n], g))
                      ELSE r.reg
       /\ lastErr' = IF r.found THEN "ok" ELSE "UnknownOperation"
    /\ lastOp' = "revoke"
    /\ UNCHANGED <<layers, bootstrapped, dispatchVars>>
    /\ UNCHANGED auxVars

\* The application calls BootStrap().
BootStrapOp ==
    /\ Idle
    /\ \E r \in {BootStrap(registry, layers, bootstrapped)} :
       /\ registry' = r.reg
       /\ layers' = r.layers
       /\ bootstrapped' = r.boot
       /\ lastErr' = r.err
    /\ lastOp' = "bootstrap"
    /\ UNCHANGED dispatchVars
    /\ UNCHANGED auxVars

\* A request handler calls method n on a record set of model m under group g.
CallOp(m, n, g) ==
    /\ Idle
    /\ bootstrapped[m]
    /\ \E r \in {CallMulti(registry, layers, bootstrapped, callStack, g, m, n)} :
       /\ callStack' = IF r.err = "ok"
                       THEN <<[layer |-> r.layer, via |-> "call"]>> ELSE << >>
       /\ ran' = IF r.err = "ok" THEN {<<r.layer, "call">>} ELSE {}
       /\ lastErr' = r.err
    /\ role' = g
    /\ supered' = {}
    /\ lastOp' = "call"
    /\ UNCHANGED <<registry, layers, bootstrapped>>
    /\ UNCHANGED auxVars

\* The executing contribution calls method n on a record set of model m, under
\* the group of the invocation: a panic unwinds the whole invocation.
NestedCallOp(m, n) ==
    /\ callStack # << >>
    /\ bootstrapped[m]
    /\ \E r \in {CallMulti(registry, layers, bootstrapped, callStack, role, m, n)} :
       /\ r.err # "ok" \/ Len(callStack) < MaxNesting
       /\ callStack' = IF r.err = "ok"
                       THEN Append(callStack, [layer |-> r.layer, via |-> "call"])
                       ELSE << >>
       /\ ran' = IF r.err = "ok" THEN ran \cup {<<r.layer, "call">>} ELSE ran
       /\ lastErr' = r.err
    /\ lastOp' = "nestedcall"
    /\ UNCHANGED <<registry, layers, bootstrapped, role, supered>>
    /\ UNCHANGED auxVars

\* The executing contribution calls rs.Super(): a panic unwinds the whole
\* invocation up to the original caller.
SuperOp ==
    /\ callStack # << >>
    /\ \E r \in {Super(registry, layers, callStack)} :
       /\ r.err # "ok" \/ Len(callStack) < MaxDepth
       /\ callStack' = IF r.err = "ok"
                       THEN Append(callStack, [layer |-> r.layer, via |-> "super"])
                       ELSE << >>
       /\ ran' = IF r.err = "ok" THEN ran \cup {<<r.layer, "super">>} ELSE ran
       /\ lastErr' = r.err
    /\ supered' = supered \cup {callStack[Len(callStack)].layer}
    /\ lastOp' = "super"
    /\ UNCHANGED <<registry, layers, bootstrapped, role>>
    /\ UNCHANGED auxVars

\* The executing contribution returns to its caller.
ReturnOp ==
    /\ callStack # << >>
    /\ callStack' = SubSeq(callStack, 1, Len(callStack) - 1)
    /\ lastOp' = "return"
    /\ lastErr' = "ok"
    /\ UNCHANGED <<registry, layers, bootstrapped, role, ran, supered>>
    /\ UNCHANGED auxVars

\* A module calls model.AddEmptyMethod(n).
AddEmptyOp(m, n) ==
    /\ Idle
    /\ \E r \in {AddEmptyMethod(registry, bootstrapped, m, n)} :
       /\ registry' = r.reg
       /\ lastErr' = r.err
    /\ lastOp' = "addempty"
    /\ UNCHANGED <<layers, bootstrapped, dispatchVars>>
    /\ UNCHANGED auxVars

\* A module or an administrator calls model.Methods().AllowAllToGroup(g); the
\* range over unauthorizedMethods goes in the given order.
AllowAllOp(m, g, order) ==
    /\ Idle
    /\ \E r \in {AllowAllToGroup(registry, bootstrapped, m, g, order)} :
       /\ registry' = r.reg
       /\ lastErr' = r.err
    /\ lastOp' = "allowall"
    /\ UNCHANGED <<layers, bootstrapped, dispatchVars>>
    /\ UNCHANGED auxVars

\* A module or an administrator calls model.Methods().RevokeAllFromGroup(g).
RevokeAllOp(m, g, order) ==
    /\ Idle
    /\ \E r \in {RevokeAllFromGroup(registry, bootstrapped, m, g, order)} :
       /\ registry' = r.reg
       /\ lastErr' = r.err
    /\ lastOp' = "revokeall"
    /\ UNCHANGED <<layers, bootstrapped, dispatchVars>>
    /\ UNCHANGED auxVars

\* ------------------------------------------------------------------------
\* Goroutines granting, revoking and checking on one Method
\* ------------------------------------------------------------------------

\* The goroutines, the Method whose mutex is followed, and the group they
\* grant, revoke and check.
Threads == {"t1", "t2", "t3"}
NoThread == "none"
LockedMethod == <<"Base", "Write">>
LockGroup == "admin"

\* The callers a goroutine passes to AllowGroup.
LockCallers == {<<"Base", "Greet">>, <<"Base", "Write">>}

\* A goroutine that runs none of the three.
IdleThread ==
    [pc |-> "idle", op |-> "none", callers |-> {}, todo |-> {},
     snap |-> newMethod("", ""), sawGroup |-> FALSE, sawCallers |-> {}]

\* Lock that does not wait for the readers to leave.
CanLock_ignoreReaders(mx) == mx.w = NoThread

\* sync.RWMutex: Lock waits until no writer and no reader holds the mutex,
\* RLock until no writer holds it.
CanLock(mx) == mx.w = NoThread /\ mx.r = {}
CanRLock(mx) == mx.w = NoThread

\* The Method of the goroutines, and the registry with that Method replaced.
Locked(reg) == reg[LockedMethod[1]][LockedMethod[2]]
WithLocked(reg, meth) == RegPut(reg, LockedMethod[1], LockedMethod[2], meth)

\* A goroutine starts AllowGroup(LockGroup, callers...), RevokeGroup(LockGroup)
\* or a permission check, after bootstrap.
StartOp(t, op, callers) ==
    /\ bootstrapped[LockedMethod[1]]
    /\ LockedMethod[2] \in DOMAIN registry[LockedMethod[1]]
    /\ thr[t].pc = "idle"
    /\ thr' = [thr EXCEPT ![t] = [IdleThread EXCEPT
                  !.pc = IF op = "check" THEN "rlock" ELSE "lock",
                  !.op = op, !.callers = callers, !.todo = callers]]
    /\ UNCHANGED <<registry, layers, bootstrapped, dispatchVars, dataVars, lastOp,
                   lastErr, mutex, stacks, outcome>>

\* m.Lock() and the deferred m.Unlock() of AllowGroup and RevokeGroup.
LockStep(t) ==
    /\ \/ /\ thr[t].pc = "lock"
          /\ CanLock(mutex)
          /\ mutex' = [mutex EXCEPT !.w = t]
          /\ thr' = [thr EXCEPT ![t].pc = "body", ![t].snap = Locked(registry)]
       \/ /\ thr[t].pc = "unlock"
          /\ mutex' = [mutex EXCEPT !.w = NoThread]
          /\ thr' = [thr EXCEPT ![t] = IdleThread]
    /\ UNCHANGED <<registry, layers, bootstrapped, dispatchVars, dataVars, lastOp,
                   lastErr, stacks, outcome>>

\* The body of AllowGroup, one map write at a time.
AllowGroupStep(t) ==
    /\ thr[t].op = "grant"
    /\ thr[t].pc = "body"
    /\ \/ /\ thr[t].callers = {}
          /\ registry' = WithLocked(registry,
                            [Locked(registry) EXCEPT !.groups = @ \cup {LockGroup}])
          /\ thr' = [thr EXCEPT ![t].pc = "unlock"]
       \/ \E c \in thr[t].todo :
          /\ registry' = WithLocked(registry,
                            [Locked(registry) EXCEPT
                               !.groupsCallers = @ \cup {<<c, LockGroup>>}])
          /\ thr' = [thr EXCEPT ![t].todo = @ \ {c},
                                ![t].pc = IF thr[t].todo = {c}
                                          THEN "unlock" ELSE "body"]
    /\ UNCHANGED <<layers, bootstrapped, dispatchVars, dataVars, lastOp, lastErr,
                   mutex, stacks, outcome>>

\* The body of RevokeGroup, one map delete at a time: the group first, then
\* the pairs of the group, in the order the range meets them.
RevokeGroupStep(t) ==
    /\ thr[t].op = "revoke"
    /\ \/ /\ thr[t].pc = "body"
          /\ registry' = WithLocked(registry,
                            [Locked(registry) EXCEPT !.groups = @ \ {LockGroup}])
          /\ thr' = [thr EXCEPT ![t].pc = "loop"]
       \/ /\ thr[t].pc = "loop"
          /\ \E cg \in Locked(registry).groupsCallers :
             /\ cg[2] = LockGroup
             /\ registry' = WithLocked(registry,
                               [Locked(registry) EXCEPT !.groupsCallers = @ \ {cg}])
          /\ UNCHANGED thr
       \/ /\ thr[t].pc = "loop"
          /\ \A cg \in Locked(registry).groupsCallers : cg[2] # LockGroup
          /\ thr' = [thr EXCEPT ![t].pc = "unlock"]
          /\ UNCHANGED registry
    /\ UNCHANGED <<layers, bootstrapped, dispatchVars, dataVars, lastOp, lastErr,
                   mutex, stacks, outcome>>

\* A permission check of the group: under the read lock it reads
\* Method.groups, then Method.groupsCallers.
CheckStep(t) ==
    /\ thr[t].op = "check"
    /\ \/ /\ thr[t].pc = "rlock"
          /\ CanRLock(mutex)
          /\ mutex' = [mutex EXCEPT !.r = @ \cup {t}]
          /\ thr' = [thr EXCEPT ![t].pc = "read1", ![t].snap = Locked(registry)]
       \/ /\ thr[t].pc = "read1"
          /\ thr' = [thr EXCEPT ![t].pc = "read2",
                                ![t].sawGroup = LockGroup \in Locked(registry).groups]
          /\ UNCHANGED mutex
       \/ /\ thr[t].pc = "read2"
          /\ thr' = [thr EXCEPT ![t].pc = "runlock",
                                ![t].sawCallers =
                                   {cg[1] : cg \in {x \in Locked(registry).groupsCallers
                                                       : x[2] = LockGroup}}]
          /\ UNCHANGED mutex
       \/ /\ thr[t].pc = "runlock"
          /\ mutex' = [mutex EXCEPT !.r = @ \ {t}]
          /\ thr' = [thr EXCEPT ![t] = IdleThread]
    /\ UNCHANGED <<registry, layers, bootstrapped, dispatchVars, dataVars, lastOp,
                   lastErr, stacks, outcome>>

\* ------------------------------------------------------------------------
\* Invocations running side by side, each on its own goroutine
\* ------------------------------------------------------------------------

\* The goroutines that run an invocation, and the most frames one holds.
Invocations == {"t1", "t2"}
MaxFrames == 4

\* Goroutine t calls method n of model m by name: from a request handler
\* when it runs nothing, from the contribution it executes otherwise. A panic
\* unwinds the whole invocation of t.
ThreadCall(t, m, n) ==
    /\ bootstrapped[m]
    /\ \E r \in {CallMulti(registry, layers, bootstrapped, stacks[t],
                           GroupEveryone, m, n)} :
       /\ r.err # "ok" \/ Len(stacks[t]) < MaxFrames
       /\ stacks' = [stacks EXCEPT ![t] =
                        IF r.err = "ok"
                        THEN Append(@, [layer |-> r.layer, via |-> "call"])
                        ELSE << >>]
    /\ UNCHANGED <<registry, layers, bootstrapped, dispatchVars, dataVars, lastOp,
                   lastErr, mutex, thr, outcome>>

\* The contribution goroutine t executes calls rs.Super().
ThreadSuper(t) ==
    /\ stacks[t] # << >>
    /\ \E r \in {Super(registry, layers, stacks[t])} :
       /\ r.err # "ok" \/ Len(stacks[t]) < MaxFrames
       /\ stacks' = [stacks EXCEPT ![t] =
                        IF r.err = "ok"
                        THEN Append(@, [layer |-> r.layer, via |-> "super"])
                        ELSE << >>]
    /\ UNCHANGED <<registry, layers, bootstrapped, dispatchVars, dataVars, lastOp,
                   lastErr, mutex, thr, outcome>>

\* The contribution goroutine t executes returns to its caller.
ThreadReturn(t) ==
    /\ stacks[t] # << >>
    /\ stacks' = [stacks EXCEPT ![t] = SubSeq(@, 1, Len(@) - 1)]
    /\ UNCHANGED <<registry, layers, bootstrapped, dispatchVars, dataVars, lastOp,
                   lastErr, mutex, thr, outcome>>

\* A request handler calls method n on the records ids of User with args:
\* through Call, or through CallMulti when multi.
InvokeOp(n, ids, args, multi) ==
    /\ Idle
    /\ bootstrapped["User"]
    /\ \E r \in {IF multi
                 THEN callMulti(registry, layers, bootstrapped, GroupEveryone,
                                [model |-> "User", ids |-> ids], n, args)
                 ELSE call(registry, layers, bootstrapped, GroupEveryone,
                           [model |-> "User", ids |-> ids], n, args)} :
       outcome' = [name |-> n, ids |-> ids, args |-> args, multi |-> multi,
                   vals |-> r.vals, err |-> r.err, log |-> r.log]
    /\ UNCHANGED <<registry, layers, bootstrapped, dispatchVars, dataVars, lastOp,
                   lastErr, mutex, thr, stacks>>

\* The layering specification: modules register layers, the application
\* bootstraps, request handlers call methods.
Next ==
    \/ \E m \in Models, n \in OpNames, f \in Fncts : Declare(m, n, f)
    \/ \E m \in Models, n \in OpNames, f \in Fncts : ExtendOp(m, n, f)
    \/ BootStrapOp
    \/ \E m \in Models, n \in OpNames, g \in Groups : CallOp(m, n, g)
    \/ SuperOp
    \/ ReturnOp

Spec == Init /\ [][Next]_vars

\* The administration specification: registration with two of the functions,
\* lookups, grants and revocations, before and after bootstrap.
AdminFncts == {"fBase", "fInt"}

NextAdmin ==
    \/ \E m \in Models, n \in OpNames, f \in AdminFncts : Declare(m, n, f)
    \/ \E m \in Models, n \in OpNames, f \in AdminFncts : ExtendOp(m, n, f)
    \/ \E m \in Models, n \in OpNames : Lookup(m, n)
    \/ \E m \in Models, n \in OpNames : GrantOp(m, n, "admin", {})
    \/ \E m \in Models, n \in OpNames : RevokeOp(m, n, "admin")
    \/ BootStrapOp

SpecAdmin == Init /\ [][NextAdmin]_vars

\* The signature specification: one method of one model, declared and
\* extended with every function of the signature universe.
NextSig ==
    \/ \E f \in SigFncts : Declare("Base", "Greet", f)
    \/ \E f \in SigFncts : ExtendOp("Base", "Greet", f)

SpecSig == Init /\ [][NextSig]_vars

\* The policy specification: the methods of one model are declared, granted
\* to and revoked from groups, and called, from outside and from one another.
PolicyNames == {"Greet", "Load", "Write"}

\* The callers a grant is scoped to: none, or method Greet of Base.
PolicyCallers == {{}, {<<"Base", "Greet">>}}

\* The (name, group, callers) arguments of AllowGroup: admin is granted any
\* method, from any caller or from Greet; everyone is granted the restricted
\* method Write.
PolicyGrants ==
    {<<n, "admin", cs>> : n \in PolicyNames, cs \in PolicyCallers}
        \cup {<<"Write", GroupEveryone, {}>>}

NextPolicy ==
    \/ \E n \in PolicyNames : Declare("Base", n, "fBase")
    \/ \E gc \in PolicyGrants : GrantOp("Base", gc[1], gc[2], gc[3])
    \/ \E n \in PolicyNames : RevokeOp("Base", n, "admin")
    \/ BootStrapOp
    \/ \E n \in PolicyNames, g \in Groups : CallOp("Base", n, g)
    \/ \E n \in PolicyNames : NestedCallOp("Base", n)
    \/ ReturnOp

SpecPolicy == Init /\ [][NextPolicy]_vars

\* The CRUD specification: the CRUD methods and Greet are created on Base,
\* Write and Greet are granted to admin for caller Greet, and the CRUD
\* methods of Base are granted to and revoked from admin as a whole.
CrudNames == unauthorizedMethods \cup {"Greet"}

\* The orders in which a range can visit the keys of unauthorizedMethods.
CrudOrders ==
    {o \in [1..Cardinality(unauthorizedMethods) -> unauthorizedMethods] :
        \A i, j \in DOMAIN o : i # j => o[i] # o[j]}

NextCrud ==
    \/ \E n \in CrudNames : AddEmptyOp("Base", n)
    \/ \E n \in {"Write", "Greet"} :
          GrantOp("Base", n, "admin", {<<"Base", "Greet">>})
    \/ \E o \in CrudOrders : AllowAllOp("Base", "admin", o)
    \/ \E o \in CrudOrders : RevokeAllOp("Base", "admin", o)
    \/ BootStrapOp

SpecCrud == Init /\ [][NextCrud]_vars

\* The locking specification: Write and Greet are declared on Base, the
\* registry is bootstrapped, and three goroutines grant Write to admin (from
\* any caller, from one or from two callers), revoke it and check it.
NextLock ==
    \/ \E n \in {"Write", "Greet"} : Declare("Base", n, "fBase")
    \/ BootStrapOp
    \/ \E t \in Threads, cs \in SUBSET LockCallers : StartOp(t, "grant", cs)
    \/ \E t \in Threads, op \in {"revoke", "check"} : StartOp(t, op, {})
    \/ \E t \in Threads : LockStep(t)
    \/ \E t \in Threads : AllowGroupStep(t)
    \/ \E t \in Threads : RevokeGroupStep(t)
    \/ \E t \in Threads : CheckStep(t)

SpecLock == Init /\ [][NextLock]_vars

\* The specification of concurrent invocations: Greet is declared on Base and
\* extended, the registry is bootstrapped, and two goroutines call Greet,
\* call it again from inside a contribution, call Super and return.
NextThreads ==
    \/ Declare("Base", "Greet", "fBase")
    \/ ExtendOp("Base", "Greet", "fBase")
    \/ BootStrapOp
    \/ \E t \in Invocations : ThreadCall(t, "Base", "Greet")
    \/ \E t \in Invocations : ThreadSuper(t)
    \/ \E t \in Invocations : ThreadReturn(t)

SpecThreads == Init /\ [][NextThreads]_vars

\* The argument lists Opts is called with: too few, its string alone, its
\* string and a slice of options (empty, of two, nil), its string and one or
\* two more strings.
EvalArgs ==
    {<< >>,
     <<Value("string", "p", << >>)>>,
     <<Value("string", "p", << >>), Value("slice", "", << >>)>>,
     <<Value("string", "p", << >>), Value("slice", "", <<"a", "b">>)>>,
     <<Value("string", "p", << >>), Value("nil", "", << >>)>>,
     <<Value("string", "p", << >>), Value("string", "a", << >>)>>,
     <<Value("string", "p", << >>), Value("string", "a", << >>),
       Value("string", "b", << >>)>>}

\* The calls: the method, the records, the arguments, and whether the call
\* goes through CallMulti.
EvalCalls ==
    {<<"Greet", ids, << >>, multi>> : ids \in {<<1, 2, 3>>, <<2, 3>>},
                                      multi \in BOOLEAN}
       \cup {<<"Pair", <<1, 2, 3>>, << >>, multi>> : multi \in BOOLEAN}
       \cup {<<"Opts", <<1, 2, 3>>, a, FALSE>> : a \in EvalArgs}
       \cup {<<"Tag", <<1, 2, 3>>, a, FALSE>> :
                a \in {<< >>, <<Value("string", "p", << >>)>>,
                       <<Value("string", "p", << >>),
                         Value("string", "a", << >>)>>}}

\* The evaluation specification: the methods Greet, Pair, Opts and Tag of
\* User are declared, Greet is extended, the registry is bootstrapped, and the
\* methods are called on some or all of the records, Opts with and without
\* its options, Tag with the right and with a wrong number of arguments.
NextEval ==
    \/ \E d \in {<<"Greet", "eHello">>, <<"Greet", "eNames">>,
                  <<"Greet", "eBoom">>, <<"Pair", "ePair">>,
                  <<"Opts", "eOpts">>, <<"Tag", "eTag">>} :
          Declare("User", d[1], d[2])
    \/ \E f \in {"eHi", "eSubset", "eLog", "eBoom"} :
          ExtendOp("User", "Greet", f)
    \/ BootStrapOp
    \/ \E c \in EvalCalls : InvokeOp(c[1], c[2], c[3], c[4])

SpecEval == Init /\ [][NextEval]_vars

\* ------------------------------------------------------------------------
\* Vocabulary of the properties
\* ------------------------------------------------------------------------

\* The layers attached to method <<m, n>>, by their addresses.
LayersOfMethod(mref) == {l \in 1..Len(layers) : layers[l].method = mref}

\* A method none of whose layers was mixed in: its layers were all registered
\* on it by NewMethod and Extend, in the order of their addresses.
IsPlain(mref) == \A l \in LayersOfMethod(mref) : ~layers[l].mixedIn

SetMax(S) == CHOOSE x \in S : \A y \in S : y <= x
SetMin(S) == CHOOSE x \in S : \A y \in S : x <= y

\* The layer registered on the method of l immediately before l (0 if none).
RegisteredBefore(l) ==
    LET older == {k \in LayersOfMethod(layers[l].method) : k < l}
    IN IF older = {} THEN 0 ELSE SetMax(older)

\* The chain of a method read from its topLayer along the raw nextLayer
\* entries, top first; fuel stops the walk on a malformed chain.
RECURSIVE ChainFrom(_, _, _)
ChainFrom(meth, l, fuel) ==
    IF l = 0 \/ fuel = 0 THEN << >>
    ELSE LET nxt == {p[2] : p \in {q \in meth.nextLayer : q[1] = l}}
         IN <<l>> \o (IF nxt = {} THEN << >>
                      ELSE ChainFrom(meth, CHOOSE x \in nxt : TRUE, fuel - 1))
Chain(meth) == ChainFrom(meth, meth.topLayer, Len(layers) + 1)

\* The functions of a sequence of layers.
FuncsOf(seq) == [i \in 1..Len(seq) |-> layers[seq[i]].funcValue]

\* fnct is a function whose first parameter implements RecordSet.
ValidMethodFnct(f) ==
    /\ FnctType(f).kind = "func"
    /\ Len(FnctType(f).in) > 0
    /\ Implements(FnctType(f).in[1], "RecordSet")

\* The method has a recorded signature and that of fnct does not match it.
Incompatible(meth, f) ==
    /\ meth.methodType # NilType
    /\ ~checkSignaturesMatch(meth.methodType, FnctType(f))

\* The chain of a method of a registry that is not the current one.
ChainIn(meth, heap) == ChainFrom(meth, meth.topLayer, Len(heap) + 1)

\* The sub-sequence of the layers of seq that are (not) mixed in.
MixedPart(seq) == SelectSeq(seq, LAMBDA l : layers[l].mixedIn)
OwnPart(seq) == SelectSeq(seq, LAMBDA l : ~layers[l].mixedIn)

\* The mixins reachable from model m, transitively.
RECURSIVE MixinClosure(_)
MixinClosure(m) ==
    UNION {{mixins(m)[i]} \cup MixinClosure(mixins(m)[i])
           : i \in 1..Len(mixins(m))}

\* Two signatures agree from the from-th parameter on: equal numbers of
\* parameters and of results, every pair of them matching, same variadicity.
SigAccepts(mt, ft, from) ==
    /\ Len(mt.in) = Len(ft.in)
    /\ \A i \in from..Len(mt.in) :
          i <= Len(ft.in) => checkTypesMatch(mt.in[i], ft.in[i])
    /\ Len(mt.out) = Len(ft.out)
    /\ \A i \in 1..Len(mt.out) :
          i <= Len(ft.out) => checkTypesMatch(mt.out[i], ft.out[i])
    /\ mt.variadic = ft.variadic

\* t1 is a generic type and t2 one of its typed views: *RecordCollection and
\* a RecordSet, FieldMap and a FieldMapper, *Condition and a Conditioner.
GenericViewOf(t1, t2) ==
    \/ t1 = "RC" /\ Implements(t2, "RecordSet")
    \/ t1 = "FieldMap" /\ Implements(t2, "FieldMapper")
    \/ t1 = "Cond" /\ Implements(t2, "Conditioner")

\* The signature the bottom layer of a chain was registered with.
FirstType(ch) == FnctType(layers[ch[Len(ch)]].funcValue)

\* The group holds a grant on the method, from any caller or from some caller.
HasGrant(meth, g) ==
    \/ g \in meth.groups
    \/ \E cg \in meth.groupsCallers : cg[2] = g

\* The calling contexts of the policy specification: no caller, or up to two
\* nested frames running layers of methods of Base.
BaseLayers == {l \in 1..Len(layers) : layers[l].method[1] = "Base"}
Frame(l) == [layer |-> l, via |-> "call"]
PolicyStacks ==
    {<< >>} \cup {<<Frame(a)>> : a \in BaseLayers}
            \cup {<<Frame(a), Frame(b)>> : a \in BaseLayers, b \in BaseLayers}

\* The method whose layer runs in the innermost frame of a non-empty stack.
Enclosing(stack) == layers[stack[Len(stack)].layer].method

\* The policy of the method lets the group in, from the calling context.
Permitted(meth, g, stack) ==
    \/ g \in meth.groups
    \/ stack # << >> /\ <<Enclosing(stack), g>> \in meth.groupsCallers

AllBootstrapped == \A m \in Models : bootstrapped[m]
NoneBootstrapped == \A m \in Models : ~bootstrapped[m]

\* ------------------------------------------------------------------------
\* Properties
\* ------------------------------------------------------------------------

\* C1: on a method built by one declare and n extends, a call enters the layer
\* registered last, and every super-call made by a layer enters the layer
\* registered immediately before it: no layer is skipped or repeated.
C1_ReverseRegistrationOrder ==
    \A i \in 1..Len(callStack) :
        LET l == callStack[i].layer
            mref == layers[l].method
        IN IsPlain(mref) =>
              IF callStack[i].via = "call"
              THEN l = SetMax(LayersOfMethod(mref))
              ELSE /\ i > 1
                   /\ layers[callStack[i - 1].layer].method = mref
                   /\ l = RegisteredBefore(callStack[i - 1].layer)

\* C1 witness: a call on a stack of three layers went through all three.
C1_Witness ==
    /\ Len(callStack) = 3
    /\ IsPlain(layers[callStack[1].layer].method)
    /\ callStack[1].via = "call"
    /\ callStack[2].via = "super"
    /\ callStack[3].via = "super"
    /\ callStack[3].layer = SetMin(LayersOfMethod(layers[callStack[1].layer].method))

\* C2: a super-call from the bottom layer of a method (the first layer
\* registered on it) panics with NoSuperLayer and enters no layer, whatever
\* the height of the stack.
C2_SuperOnBottomFails ==
    /\ \A l \in 1..Len(layers) :
          (IsPlain(layers[l].method) /\ RegisteredBefore(l) = 0) =>
             \A via \in {"call", "super"} :
                \E r \in {Super(registry, layers, <<[layer |-> l, via |-> via]>>)} :
                    r.err = "NoSuperLayer" /\ r.layer = NilLayer
    /\ (lastOp = "super" /\ lastErr = "NoSuperLayer" => callStack = << >>)

\* C2 witness: the bottom layer of a two-layer stack, reached by a super-call,
\* called Super and the invocation ended with NoSuperLayer.
C2_Witness ==
    /\ lastOp = "super"
    /\ lastErr = "NoSuperLayer"
    /\ Cardinality(ran) = 2
    /\ \A r \in ran : r[1] \in supered

\* C3: a layer beneath another one is entered only when every layer above it
\* in the stack has called Super: a layer that has not called Super has no
\* layer beneath it executed in the invocation.
C3_NoSuperNoLowerLayer ==
    \A r \in ran :
        LET l == r[1]
            mref == layers[l].method
        IN IsPlain(mref) =>
              /\ r[2] = "super" =>
                    \A u \in LayersOfMethod(mref) : u > l => u \in supered
              /\ r[2] = "call" => l = SetMax(LayersOfMethod(mref))

\* C3 witness: the top layer of a two-layer method returned without calling
\* Super and nothing else ran.
C3_Witness ==
    /\ lastOp = "return"
    /\ callStack = << >>
    /\ supered = {}
    /\ \E r \in ran :
          /\ ran = {r}
          /\ r[2] = "call"
          /\ IsPlain(layers[r[1]].method)
          /\ Cardinality(LayersOfMethod(layers[r[1]].method)) >= 2

\* C4 as stated: an extend with a signature that does not match the recorded
\* one always fails with IncompatibleSignature and changes nothing.
C4_AlwaysIncompatibleSignature ==
    \A m \in Models : \A n \in DOMAIN registry[m] : \A f \in Fncts :
        Incompatible(registry[m][n], f) =>
            \E r \in {ExtendMethod(registry, layers, bootstrapped, m, n, f)} :
                /\ r.err = "IncompatibleSignature"
                /\ r.reg = registry
                /\ r.layers = layers

\* C4 amended: an extend with a signature that does not match the recorded one
\* always fails and leaves the stack and the recorded signature as they were;
\* the failure is IncompatibleSignature before bootstrap when the function has
\* a RecordSet as first parameter, the function-type panic when it has not,
\* and MutationAfterBootstrap after bootstrap.
C4_IncompatibleExtendRejected ==
    \A m \in Models : \A n \in DOMAIN registry[m] : \A f \in Fncts :
        Incompatible(registry[m][n], f) =>
            \E r \in {ExtendMethod(registry, layers, bootstrapped, m, n, f)} :
                /\ r.err = IF bootstrapped[m] THEN "MutationAfterBootstrap"
                           ELSE IF ~ValidMethodFnct(f) THEN "InvalidFunction"
                           ELSE "IncompatibleSignature"
                /\ r.reg = registry
                /\ r.layers = layers

\* C4 witness: before bootstrap an extend was refused with
\* IncompatibleSignature on a method that has layers.
C4_Witness ==
    /\ lastOp = "extend"
    /\ lastErr = "IncompatibleSignature"
    /\ NoneBootstrapped
    /\ \E m \in Models : \E n \in DOMAIN registry[m] :
          /\ Len(Chain(registry[m][n])) = 2
          /\ \E f \in Fncts : Incompatible(registry[m][n], f)

\* C5 as stated: after bootstrap every declare and every extend fails with
\* MutationAfterBootstrap, whatever the state of the method.
C5_AlwaysMutationAfterBootstrap ==
    AllBootstrapped =>
        \A m \in Models : \A n \in MethodNames : \A f \in Fncts :
            /\ NewMethod(registry, layers, bootstrapped, m, n, f).err
                   = "MutationAfterBootstrap"
            /\ ExtendMethod(registry, layers, bootstrapped, m, n, f).err
                   = "MutationAfterBootstrap"

\* C5 amended: after bootstrap every declare and every extend fails and changes
\* neither a table nor a stack; the failure is MutationAfterBootstrap, except a
\* declare on a method that already has layers (DuplicateDeclaration) and an
\* extend on a name absent from the table (UnknownOperation).
C5_MutationAfterBootstrapFails ==
    AllBootstrapped =>
        \A m \in Models : \A n \in MethodNames : \A f \in Fncts :
            /\ \E d \in {NewMethod(registry, layers, bootstrapped, m, n, f)} :
                  /\ d.err = IF n \in DOMAIN registry[m]
                                /\ registry[m][n].topLayer # NilLayer
                             THEN "DuplicateDeclaration"
                             ELSE "MutationAfterBootstrap"
                  /\ d.reg = registry
                  /\ d.layers = layers
            /\ \E e \in {ExtendMethod(registry, layers, bootstrapped, m, n, f)} :
                  /\ e.err = IF n \notin DOMAIN registry[m]
                             THEN "UnknownOperation"
                             ELSE "MutationAfterBootstrap"
                  /\ e.reg = registry
                  /\ e.layers = layers

\* C5 witness: after bootstrap an extend of a method that has layers was
\* refused with MutationAfterBootstrap.
C5_Witness ==
    /\ AllBootstrapped
    /\ lastOp = "extend"
    /\ lastErr = "MutationAfterBootstrap"
    /\ \E m \in Models : \E n \in DOMAIN registry[m] :
          registry[m][n].topLayer # NilLayer

\* C6: once bootstrapped, no step (declare, extend, lookup, grant, revoke)
\* changes the set of methods of a model, the chain of layers of a method or
\* a layer.
C6_FrozenAfterBootstrap ==
    [][AllBootstrapped =>
          /\ layers' = layers
          /\ \A m \in Models :
                /\ DOMAIN registry'[m] = DOMAIN registry[m]
                /\ \A n \in DOMAIN registry[m] :
                      /\ registry'[m][n].topLayer = registry[m][n].topLayer
                      /\ registry'[m][n].nextLayer = registry[m][n].nextLayer
                      /\ registry'[m][n].methodType = registry[m][n].methodType
      ]_vars

\* C6 witness: after bootstrap a grant was made on a method that has layers
\* (the policy changed, the layers did not).
C6_Witness ==
    /\ AllBootstrapped
    /\ lastOp = "grant"
    /\ lastErr = "ok"
    /\ \E m \in Models : \E n \in DOMAIN registry[m] :
          /\ "admin" \in registry[m][n].groups
          /\ Len(Chain(registry[m][n])) >= 2

\* C7: before bootstrap, a declare of a name found neither in the model nor in
\* its mixins creates the method with the function as its only layer, and any
\* further declare of the name fails with DuplicateDeclaration and changes
\* nothing.
C7_DeclareThenDuplicate ==
    \A m \in Models : \A n \in OpNames : \A f \in Fncts :
        (/\ ~bootstrapped[m]
         /\ ~get(registry, bootstrapped, m, n).found
         /\ ValidMethodFnct(f)) =>
            \E d \in {NewMethod(registry, layers, bootstrapped, m, n, f)} :
                /\ d.err = "ok"
                /\ n \in DOMAIN d.reg[m]
                /\ ChainIn(d.reg[m][n], d.layers) = <<Len(layers) + 1>>
                /\ Len(d.layers) = Len(layers) + 1
                /\ d.layers[Len(layers) + 1].funcValue = f
                /\ \A f2 \in Fncts :
                      \E e \in {NewMethod(d.reg, d.layers, bootstrapped, m, n, f2)} :
                          /\ e.err = "DuplicateDeclaration"
                          /\ e.reg = d.reg
                          /\ e.layers = d.layers

\* C7 witness: the method was declared on Base and a second declare on Base
\* (the only model with the name) was refused.
C7_Witness ==
    /\ lastOp = "declare"
    /\ lastErr = "DuplicateDeclaration"
    /\ Len(layers) = 1
    /\ DOMAIN registry["Base"] = {"Greet"}
    /\ Len(Chain(registry["Base"]["Greet"])) = 1
    /\ DOMAIN registry["Addr"] = {}
    /\ DOMAIN registry["User"] = {}

\* C8 as stated: a declare on a model whose table lacks the name while a mixin
\* provides it does not fail with DuplicateDeclaration and makes the function
\* the bottom layer of the model's method.
C8_DeclareOverMixinSucceeds ==
    \A m \in Models : \A n \in OpNames : \A f \in Fncts :
        (/\ ~bootstrapped[m]
         /\ n \notin DOMAIN registry[m]
         /\ findMethodInMixin(registry, bootstrapped, m, n).found
         /\ ValidMethodFnct(f)) =>
            \E d \in {NewMethod(registry, layers, bootstrapped, m, n, f)} :
                /\ d.err = "ok"
                /\ ChainIn(d.reg[m][n], d.layers) = <<Len(layers) + 1>>

\* C8 amended: a declare on a model whose table lacks the name while a mixin
\* reachable from it provides it fails with DuplicateDeclaration: no layer is
\* attached, and the lookup leaves in the model's table a copy of the mixin's
\* method without layers.
C8_DeclareOverMixinFails ==
    \A m \in Models : \A n \in OpNames : \A f \in Fncts :
        (/\ ~bootstrapped[m]
         /\ n \notin DOMAIN registry[m]
         /\ findMethodInMixin(registry, bootstrapped, m, n).found) =>
            \E d \in {NewMethod(registry, layers, bootstrapped, m, n, f)} :
                /\ d.err = "DuplicateDeclaration"
                /\ d.layers = layers
                /\ n \in DOMAIN d.reg[m]
                /\ d.reg[m][n].topLayer = NilLayer
                /\ d.reg[m][n].nextLayer = {}

\* C8 witness: Base declares Greet, a declare of Greet on User was refused;
\* User holds a copy without layers.
C8_Witness ==
    /\ lastOp = "declare"
    /\ lastErr = "DuplicateDeclaration"
    /\ NoneBootstrapped
    /\ Len(layers) = 1
    /\ layers[1].method = <<"Base", "Greet">>
    /\ "Greet" \in DOMAIN registry["User"]
    /\ registry["User"]["Greet"].topLayer = NilLayer

\* C9: before bootstrap, an extend of a name the model's table lacks and a
\* mixin reachable from it provides: the lookup installs a copy with the
\* mixin method's name and signature and no layer; the function is accepted
\* exactly when it is a method function matching that signature, and then it
\* is the only layer of the model's method; the methods the other models had
\* are unchanged.
C9_ExtendMaterializesPlaceholder ==
    \A m \in Models : \A n \in OpNames : \A f \in Fncts :
        \E fm \in {findMethodInMixin(registry, bootstrapped, m, n)} :
        (/\ ~bootstrapped[m]
         /\ n \notin DOMAIN registry[m]
         /\ fm.found) =>
            \E src \in {fm.reg[fm.owner][n]} :
            \E g \in {get(registry, bootstrapped, m, n)} :
            \E e \in {ExtendMethod(registry, layers, bootstrapped, m, n, f)} :
                /\ g.reg[m][n].name = n
                /\ g.reg[m][n].model = m
                /\ g.reg[m][n].methodType = src.methodType
                /\ g.reg[m][n].topLayer = NilLayer
                /\ g.reg[m][n].nextLayer = {}
                /\ e.err = "ok" <=>
                      /\ ValidMethodFnct(f)
                      /\ ~Incompatible(src, f)
                /\ e.err = "ok" =>
                      /\ ChainIn(e.reg[m][n], e.layers) = <<Len(layers) + 1>>
                      /\ e.layers[Len(layers) + 1].funcValue = f
                      /\ e.layers[Len(layers) + 1].method = <<m, n>>
                /\ e.err # "ok" =>
                      /\ e.reg[m][n] = g.reg[m][n]
                      /\ e.layers = layers
                /\ \A o \in Models \ {m} : \A k \in DOMAIN registry[o] :
                      e.reg[o][k] = registry[o][k]

\* C9 witness: Base declared Greet with one layer; User extended Greet before
\* bootstrap and holds one layer of its own, Addr a copy without layers.
C9_Witness ==
    /\ lastOp = "extend"
    /\ lastErr = "ok"
    /\ NoneBootstrapped
    /\ Len(layers) = 2
    /\ layers[1].method = <<"Base", "Greet">>
    /\ layers[2].method = <<"User", "Greet">>
    /\ Chain(registry["User"]["Greet"]) = <<2>>
    /\ "Greet" \in DOMAIN registry["Addr"]
    /\ registry["Addr"]["Greet"].topLayer = NilLayer
    /\ Chain(registry["Base"]["Greet"]) = <<1>>

\* C10: after bootstrap every method of a mixin is a method of the models
\* mixing it in; its chain there is the model's own layers, top first, then
\* copies of the mixin's layers running the same functions in the same order;
\* a call enters the top of that chain and a super-call from the model's
\* lowest own layer enters the copy of the mixin's top layer.
C10_MixinMethodCallable ==
    AllBootstrapped =>
        \A m \in Models : \A i \in 1..Len(mixins(m)) :
            \A n \in DOMAIN registry[mixins(m)[i]] :
                /\ n \in DOMAIN registry[m]
                /\ \E ch \in {Chain(registry[m][n])} :
                   \E mx \in {Chain(registry[mixins(m)[i]][n])} :
                      /\ ch = OwnPart(ch) \o MixedPart(ch)
                      /\ FuncsOf(MixedPart(ch)) = FuncsOf(mx)
                      /\ \A k \in 1..Len(ch) : layers[ch[k]].method = <<m, n>>
                      /\ mx # << >> =>
                            \E c \in {CallMulti(registry, layers, bootstrapped,
                                                << >>, GroupEveryone, m, n)} :
                                c.err = "ok" /\ c.layer = ch[1]
                      /\ (OwnPart(ch) # << >> /\ mx # << >>) =>
                            \E r \in {Super(registry, layers,
                                           <<[layer |-> OwnPart(ch)[Len(OwnPart(ch))],
                                              via |-> "call"]>>)} :
                                r.err = "ok" /\ r.layer = MixedPart(ch)[1]

\* C10 witness: a call on User entered User's own layer, whose super-call
\* entered the copy of a layer registered on a mixin.
C10_Witness ==
    /\ Len(callStack) = 2
    /\ callStack[1].via = "call"
    /\ callStack[2].via = "super"
    /\ layers[callStack[1].layer].method = <<"User", "Greet">>
    /\ ~layers[callStack[1].layer].mixedIn
    /\ layers[callStack[2].layer].mixedIn
    /\ \E l \in LayersOfMethod(<<"Base", "Greet">>) :
          /\ ~layers[l].mixedIn
          /\ layers[l].funcValue = layers[callStack[2].layer].funcValue

C12_ExtendUnknownOperation ==
    \A m \in Models : \A n \in MethodNames : \A f \in Fncts :
        (\A k \in {m} \cup MixinClosure(m) : n \notin DOMAIN registry[k]) =>
            \E e \in {ExtendMethod(registry, layers, bootstrapped, m, n, f)} :
                /\ e.err = "UnknownOperation"
                /\ e.reg = registry
                /\ e.layers = layers

\* C12 witness: Greet exists on User only; an extend of Greet on a model
\* that cannot reach it was refused with UnknownOperation.
C12_Witness ==
    /\ lastOp = "extend"
    /\ lastErr = "UnknownOperation"
    /\ NoneBootstrapped
    /\ "Greet" \in DOMAIN registry["User"]
    /\ registry["User"]["Greet"].topLayer # NilLayer
    /\ DOMAIN registry["Addr"] = {}
    /\ DOMAIN registry["Base"] = {}

\* C13: after bootstrap a call fails with UnknownOperation when the model has
\* no method of the name, whatever the policy; else with Unauthorized when the
\* policy does not let the group in; in both cases it enters no layer, and an
\* external call that failed so has run nothing.  Otherwise it enters the top
\* layer of the method.
C13_ResolveThenAuthorize ==
    /\ AllBootstrapped =>
          \A n \in PolicyNames : \A g \in Groups : \A stack \in PolicyStacks :
             \E c \in {CallMulti(registry, layers, bootstrapped, stack, g,
                                 "Base", n)} :
                IF n \notin DOMAIN registry["Base"]
                THEN c.err = "UnknownOperation" /\ c.layer = NilLayer
                ELSE IF ~Permitted(registry["Base"][n], g, stack)
                THEN c.err = "Unauthorized" /\ c.layer = NilLayer
                ELSE registry["Base"][n].topLayer # NilLayer =>
                        /\ c.err = "ok"
                        /\ c.layer = registry["Base"][n].topLayer
    /\ (lastOp = "call" /\ lastErr \in {"UnknownOperation", "Unauthorized"}) =>
          callStack = << >> /\ ran = {}
    /\ (lastOp = "nestedcall" /\ lastErr \in {"UnknownOperation", "Unauthorized"})
          => callStack = << >>

\* C13 witness: the three methods exist with a layer each; an external call
\* under admin was refused with Unauthorized and ran nothing.
C13_Witness ==
    /\ lastOp = "call"
    /\ lastErr = "Unauthorized"
    /\ role = "admin"
    /\ ran = {}
    /\ DOMAIN registry["Base"] = PolicyNames
    /\ \A n \in PolicyNames : registry["Base"][n].topLayer # NilLayer

\* C14 as stated: the methodType of a method with layers is the type of the
\* first function attached to it, and an extend is accepted only with a
\* function matching that first type.
C14_SignatureFixedByFirst ==
    \A m \in Models : \A n \in DOMAIN registry[m] :
        \E ch \in {Chain(registry[m][n])} :
            (IsPlain(<<m, n>>) /\ ch # << >>) =>
                /\ registry[m][n].methodType = FirstType(ch)
                /\ \A f \in SigFncts :
                      ExtendMethod(registry, layers, bootstrapped, m, n, f).err
                          = "ok"
                      => checkSignaturesMatch(FirstType(ch), FnctType(f))

\* C15 as stated: before bootstrap an extend with a method function onto a
\* method with a recorded signature is accepted exactly when the signatures
\* agree on every parameter, the first included.
C15_AcceptedIffAllPairsMatch ==
    \A m \in Models : \A n \in DOMAIN registry[m] : \A f \in SigFncts :
        (/\ ~bootstrapped[m]
         /\ registry[m][n].methodType # NilType
         /\ ValidMethodFnct(f)) =>
            (ExtendMethod(registry, layers, bootstrapped, m, n, f).err = "ok"
             <=> SigAccepts(registry[m][n].methodType, FnctType(f), 1))

\* C15 amended: before bootstrap an extend with a method function onto a
\* method with a recorded signature is accepted exactly when the numbers of
\* parameters are equal, every pair of parameters after the first (the record
\* set the function runs on) matches, the numbers of results are equal, every
\* pair of results matches and both are variadic or neither is; otherwise it
\* fails with IncompatibleSignature.
C15_AcceptedIffPairsAfterFirstMatch ==
    \A m \in Models : \A n \in DOMAIN registry[m] : \A f \in SigFncts :
        (/\ ~bootstrapped[m]
         /\ registry[m][n].methodType # NilType
         /\ ValidMethodFnct(f)) =>
            \E e \in {ExtendMethod(registry, layers, bootstrapped, m, n, f)} :
                e.err = IF SigAccepts(registry[m][n].methodType, FnctType(f), 2)
                        THEN "ok" ELSE "IncompatibleSignature"

\* C15 witness: an extend was accepted whose function runs on a record set
\* type that does not match the one of the layer below.
C15_Witness ==
    /\ lastOp = "extend"
    /\ lastErr = "ok"
    /\ \E ch \in {Chain(registry["Base"]["Greet"])} :
          /\ Len(ch) = 2
          /\ ~checkTypesMatch(FnctType(layers[ch[1]].funcValue).in[1],
                              FnctType(layers[ch[2]].funcValue).in[1])

\* C16 as stated: an extend is accepted when each parameter after the first
\* is, pairwise, the same type or a generic type and one of its typed views
\* (in either direction), the rest of the signatures being equal.
C16_GenericViewEquivalences ==
    \A m \in Models : \A n \in DOMAIN registry[m] : \A f \in SigFncts :
        \E mt \in {registry[m][n].methodType} : \E ft \in {FnctType(f)} :
        (/\ ~bootstrapped[m]
         /\ mt # NilType
         /\ ValidMethodFnct(f)
         /\ Len(mt.in) = Len(ft.in)
         /\ mt.out = ft.out
         /\ mt.variadic = ft.variadic
         /\ \A i \in 2..Len(mt.in) :
               i <= Len(ft.in) =>
                  \/ mt.in[i] = ft.in[i]
                  \/ GenericViewOf(mt.in[i], ft.in[i])
                  \/ GenericViewOf(ft.in[i], mt.in[i])) =>
            ExtendMethod(registry, layers, bootstrapped, m, n, f).err = "ok"

\* C17: a method entering a table (by NewMethod, AddEmptyMethod or the copy
\* of a lookup) is granted to GroupEveryone from any caller and to nothing
\* else, unless it is named Load, Create, Write or Unlink, and then it has no
\* grant at all; a call of such a method under GroupEveryone fails with
\* Unauthorized from every calling context as long as GroupEveryone holds no
\* grant on it, and GroupEveryone gets a grant on it only by a grant step.
C17_DefaultPolicy ==
    /\ [](/\ \A m \in Models : \A n \in PolicyNames \cup {"Create", "Unlink"} :
               (~bootstrapped[m] /\ n \notin DOMAIN registry[m]) =>
                  \A r \in {get(registry, bootstrapped, m, n).reg,
                            AddEmptyMethod(registry, bootstrapped, m, n).reg,
                            NewMethod(registry, layers, bootstrapped, m, n,
                                      "fBase").reg} :
                     n \in DOMAIN r[m] =>
                        /\ r[m][n].groups =
                              IF n \in {"Load", "Create", "Write", "Unlink"}
                              THEN {} ELSE {GroupEveryone}
                        /\ r[m][n].groupsCallers = {}
          /\ AllBootstrapped =>
                \A n \in DOMAIN registry["Base"] :
                   ~HasGrant(registry["Base"][n], GroupEveryone) =>
                      \A stack \in PolicyStacks :
                         CallMulti(registry, layers, bootstrapped, stack,
                                   GroupEveryone, "Base", n).err = "Unauthorized")
    /\ [][\A m \in Models : \A n \in DOMAIN registry[m] :
             (/\ n \in DOMAIN registry'[m]
              /\ ~HasGrant(registry[m][n], GroupEveryone)
              /\ HasGrant(registry'[m][n], GroupEveryone)) =>
                 lastOp' = "grant"]_vars

\* C17 witness: Write was declared and never granted; after bootstrap a call
\* of it under GroupEveryone was refused, while Greet is granted to
\* GroupEveryone.
C17_Witness ==
    /\ AllBootstrapped
    /\ lastOp = "call"
    /\ lastErr = "Unauthorized"
    /\ role = GroupEveryone
    /\ DOMAIN registry["Base"] = {"Greet", "Write"}
    /\ registry["Base"]["Write"].topLayer # NilLayer
    /\ registry["Base"]["Write"].groups = {}
    /\ registry["Base"]["Write"].groupsCallers = {}
    /\ registry["Base"]["Greet"].groups = {GroupEveryone}

\* C18: AllowGroup without callers adds the group to Method.groups and leaves
\* Method.groupsCallers as it was; with callers it adds exactly the pairs
\* (caller, group) to Method.groupsCallers and leaves Method.groups as it
\* was; nothing else of the method changes.
C18_GrantFrame ==
    \A n \in DOMAIN registry["Base"] : \A g \in Groups :
        \A cs \in SUBSET {<<"Base", c>> : c \in PolicyNames} :
            \E meth \in {registry["Base"][n]} :
            \E r \in {allowGroup(meth, g, cs)} :
                /\ r.groups = IF cs = {} THEN meth.groups \cup {g}
                              ELSE meth.groups
                /\ r.groupsCallers = meth.groupsCallers
                                        \cup {<<c, g>> : c \in cs}
                /\ [r EXCEPT !.groups = meth.groups,
                             !.groupsCallers = meth.groupsCallers] = meth

\* C18 witness: a grant scoped to caller Greet was made to admin on Write,
\* which admin holds from no other caller.
C18_Witness ==
    /\ lastOp = "grant"
    /\ lastErr = "ok"
    /\ "Write" \in DOMAIN registry["Base"]
    /\ registry["Base"]["Write"].groupsCallers = {<<<<"Base", "Greet">>, "admin">>}
    /\ registry["Base"]["Write"].groups = {}

\* C19: when a group holds on a method nothing but one grant scoped to a
\* caller, be it found so in the table or made so by RevokeGroup followed by
\* AllowGroup with that caller, a call of the method under the group is let
\* in exactly when the innermost running frame is a layer of that caller: it
\* is refused with Unauthorized from outside and from any other method, that
\* one called by the caller included.
C19_CallerScopedGrant ==
    AllBootstrapped =>
        \E callStacks \in {PolicyStacks} :
        \A n \in DOMAIN registry["Base"] : \A g \in Groups :
            \A c \in PolicyNames :
              /\ registry["Base"][n].topLayer # NilLayer =>
                    \E reg \in {RegPut(registry, "Base", n,
                                       allowGroup(revokeGroup(registry["Base"][n], g),
                                                  g, {<<"Base", c>>}))} :
                       \A stack \in callStacks :
                          CallMulti(reg, layers, bootstrapped, stack, g,
                                    "Base", n).err
                             = IF stack # << >> /\ Enclosing(stack) = <<"Base", c>>
                               THEN "ok" ELSE "Unauthorized"
              /\
                (/\ registry["Base"][n].topLayer # NilLayer
                 /\ g \notin registry["Base"][n].groups
                 /\ {cg \in registry["Base"][n].groupsCallers : cg[2] = g}
                       = {<<<<"Base", c>>, g>>}) =>
                    \A stack \in callStacks :
                        CallMulti(registry, layers, bootstrapped, stack, g,
                                  "Base", n).err
                            = IF stack # << >> /\ Enclosing(stack) = <<"Base", c>>
                              THEN "ok" ELSE "Unauthorized"

\* C19 witness: Load and Write are granted to admin for caller Greet only;
\* under admin, Greet called Load, and a call made from Load was refused.
C19_Witness ==
    /\ lastOp = "nestedcall"
    /\ lastErr = "Unauthorized"
    /\ role = "admin"
    /\ DOMAIN registry["Base"] = PolicyNames
    /\ registry["Base"]["Write"].groups = {}
    /\ registry["Base"]["Write"].groupsCallers = {<<<<"Base", "Greet">>, "admin">>}
    /\ "admin" \in registry["Base"]["Greet"].groups
    /\ registry["Base"]["Load"].groups = {}
    /\ registry["Base"]["Load"].groupsCallers = {<<<<"Base", "Greet">>, "admin">>}
    /\ ran = {<<registry["Base"]["Greet"].topLayer, "call">>,
              <<registry["Base"]["Load"].topLayer, "call">>}

\* C20: RevokeGroup removes the group from Method.groups and every pair of
\* the group from Method.groupsCallers, and nothing of another group; after
\* it, and in every state where the group holds no grant on the method, a
\* call of the method under the group fails with Unauthorized from every
\* calling context.
C20_RevokeRemovesAll ==
    \A n \in DOMAIN registry["Base"] : \A g \in Groups :
        \E meth \in {registry["Base"][n]} :
        \E r \in {revokeGroup(meth, g)} :
            /\ r.groups = meth.groups \ {g}
            /\ r.groupsCallers = {cg \in meth.groupsCallers : cg[2] # g}
            /\ ~HasGrant(r, g)
            /\ AllBootstrapped =>
                  \E reg \in {RegPut(registry, "Base", n, r)} :
                  \A stack \in PolicyStacks :
                     /\ CallMulti(reg, layers,
                                  bootstrapped, stack, g, "Base", n).err
                           = "Unauthorized"
                     /\ ~HasGrant(meth, g) =>
                           CallMulti(registry, layers, bootstrapped, stack, g,
                                     "Base", n).err = "Unauthorized"

\* C20 witness: an invocation under admin ran Write from Greet; admin's
\* grants on Write were revoked since: Write has no grant left for admin,
\* neither from any caller nor from Greet.
C20_Witness ==
    /\ lastOp = "revoke"
    /\ lastErr = "ok"
    /\ role = "admin"
    /\ AllBootstrapped
    /\ "Write" \in DOMAIN registry["Base"]
    /\ "Greet" \in DOMAIN registry["Base"]
    /\ ran = {<<registry["Base"]["Greet"].topLayer, "call">>,
              <<registry["Base"]["Write"].topLayer, "call">>}
    /\ ~HasGrant(registry["Base"]["Write"], "admin")

\* C21: RevokeGroup changes nothing but the grants of the group on the
\* method: the unconditional and the caller-scoped grants of every other
\* group stay, as does everything else of the method; revoking a group that
\* holds no grant leaves the method as it was.  A RevokeGroup step that
\* ended well changed the policy of at most one method of one model, by
\* removing grants of one group, and no step of a revoke raises a panic on a
\* method that exists.
C21_RevokeFrame ==
    /\ [](\A m \in Models : \A n \in DOMAIN registry[m] : \A g \in Groups :
             \E meth \in {registry[m][n]} :
             \E r \in {revokeGroup(meth, g)} :
                /\ r.groups \ {g} = meth.groups \ {g}
                /\ {cg \in r.groupsCallers : cg[2] # g}
                      = {cg \in meth.groupsCallers : cg[2] # g}
                /\ [r EXCEPT !.groups = meth.groups,
                             !.groupsCallers = meth.groupsCallers] = meth
                /\ ~HasGrant(meth, g) => r = meth)
    /\ [][lastOp' = "revoke" =>
             /\ lastErr' = "ok" =>
                   \E m \in Models : \E n \in DOMAIN registry'[m] :
                   \E g \in Groups :
                      /\ \A m2 \in Models :
                            DOMAIN registry'[m2] = DOMAIN registry[m2]
                      /\ \A m2 \in Models : \A n2 \in DOMAIN registry[m2] :
                            <<m2, n2>> # <<m, n>> =>
                               registry'[m2][n2] = registry[m2][n2]
                      /\ registry'[m][n].groups \ {g} = registry[m][n].groups \ {g}
                      /\ {cg \in registry'[m][n].groupsCallers : cg[2] # g}
                            = {cg \in registry[m][n].groupsCallers : cg[2] # g}
                      /\ ~HasGrant(registry[m][n], g) => registry' = registry
             /\ lastErr' # "ok" =>
                   /\ lastErr' = "UnknownOperation"
                   /\ registry' = registry]_vars

\* C21 witness: admin's grants on Write were revoked; the unconditional grant
\* of everyone on Write and the grants of admin on Load and Greet are there.
C21_Witness ==
    /\ lastOp = "revoke"
    /\ lastErr = "ok"
    /\ DOMAIN registry["Base"] = PolicyNames
    /\ registry["Base"]["Write"].groups = {GroupEveryone}
    /\ registry["Base"]["Write"].groupsCallers = {}
    /\ registry["Base"]["Load"].groups = {"admin"}
    /\ registry["Base"]["Greet"].groupsCallers = {<<<<"Base", "Greet">>, "admin">>}

\* C26: BootStrap is one-shot.  Called on a registry that is not bootstrapped
\* it succeeds and marks every collection bootstrapped, after which no
\* NewMethod and no Extend changes a table or a layer; called on a
\* bootstrapped registry, and called a second time after the first, it fails
\* with AlreadyBootstrapped and leaves the tables, the layers, the policies
\* and the flags as they were.
C26_BootStrapOneShot ==
    \E b \in {BootStrap(registry, layers, bootstrapped)} :
       IF \E m \in Models : bootstrapped[m]
       THEN /\ AllBootstrapped
            /\ b.err = "AlreadyBootstrapped"
            /\ b.reg = registry
            /\ b.layers = layers
            /\ b.boot = bootstrapped
       ELSE /\ b.err = "ok"
            /\ \A m \in Models : b.boot[m]
            /\ \E b2 \in {BootStrap(b.reg, b.layers, b.boot)} :
                  /\ b2.err = "AlreadyBootstrapped"
                  /\ b2.reg = b.reg
                  /\ b2.layers = b.layers
                  /\ b2.boot = b.boot
            /\ \A m \in Models : \A n \in OpNames : \A f \in AdminFncts :
                  /\ \E d \in {NewMethod(b.reg, b.layers, b.boot, m, n, f)} :
                        d.err # "ok" /\ d.reg = b.reg /\ d.layers = b.layers
                  /\ \E e \in {ExtendMethod(b.reg, b.layers, b.boot, m, n, f)} :
                        e.err # "ok" /\ e.reg = b.reg /\ e.layers = b.layers

\* C26 witness: BootStrap was called again on a bootstrapped registry that
\* holds a method with two layers and a grant to admin, and failed.
C26_Witness ==
    /\ lastOp = "bootstrap"
    /\ lastErr = "AlreadyBootstrapped"
    /\ AllBootstrapped
    /\ \E m \in Models : \E n \in DOMAIN registry[m] :
          /\ "admin" \in registry[m][n].groups
          /\ Len(Chain(registry[m][n])) >= 2

\* The name resolves on the model: the model has it, or it is not
\* bootstrapped and a mixin it reaches has it.
Resolvable(m, n) ==
    \/ n \in DOMAIN registry[m]
    \/ ~bootstrapped[m] /\ \E x \in MixinClosure(m) : n \in DOMAIN registry[x]

\* An order of the keys of unauthorizedMethods, taken as reference.
SomeCrudOrder == CHOOSE o \in CrudOrders : TRUE

\* C30: AllowAllToGroup succeeds exactly when the four names of
\* unauthorizedMethods resolve on the model; then, whatever the order of its
\* range, the group holds an unconditional grant on the four methods of the
\* model, a method the model already had differs by that grant only, and no
\* other method of the registry has changed.  A RevokeAllFromGroup of the
\* group that follows succeeds, whatever its order, and leaves the group no
\* grant on any of the four, unconditional or caller-scoped.
C30_AllowAllThenRevokeAll ==
    \A m \in Models : \A g \in Groups :
       /\ \A o \in CrudOrders :
             \E a \in {AllowAllToGroup(registry, bootstrapped, m, g, o)} :
                /\ a.err = "ok" <=> \A n \in unauthorizedMethods : Resolvable(m, n)
                /\ a.err = "ok" =>
                      /\ a.reg = AllowAllToGroup(registry, bootstrapped, m, g,
                                                 SomeCrudOrder).reg
                      /\ \A n \in unauthorizedMethods :
                            /\ n \in DOMAIN a.reg[m]
                            /\ g \in a.reg[m][n].groups
                            /\ n \in DOMAIN registry[m] =>
                                  a.reg[m][n] = [registry[m][n] EXCEPT
                                                   !.groups = @ \cup {g}]
                      /\ \A m2 \in Models :
                            /\ DOMAIN a.reg[m2] \subseteq
                                  DOMAIN registry[m2] \cup unauthorizedMethods
                            /\ \A n2 \in DOMAIN registry[m2] :
                                  (m2 # m \/ n2 \notin unauthorizedMethods) =>
                                     a.reg[m2][n2] = registry[m2][n2]
       /\ \E a \in {AllowAllToGroup(registry, bootstrapped, m, g, SomeCrudOrder)} :
             a.err = "ok" =>
                \A o \in CrudOrders :
                   \E r \in {RevokeAllFromGroup(a.reg, bootstrapped, m, g, o)} :
                      /\ r.err = "ok"
                      /\ \A n \in unauthorizedMethods :
                            ~HasGrant(r.reg[m][n], g)
                      /\ \A m2 \in Models : \A n2 \in DOMAIN a.reg[m2] :
                            (m2 # m \/ n2 \notin unauthorizedMethods) =>
                               r.reg[m2][n2] = a.reg[m2][n2]

\* C30 witness: AllowAllToGroup(admin) ended well on Base, where admin held a
\* grant on Write for caller Greet before; admin holds the four methods
\* unconditionally and Greet, as before, for caller Greet only.
C30_Witness ==
    /\ lastOp = "allowall"
    /\ lastErr = "ok"
    /\ CrudNames \subseteq DOMAIN registry["Base"]
    /\ \A n \in unauthorizedMethods : "admin" \in registry["Base"][n].groups
    /\ registry["Base"]["Write"].groupsCallers = {<<<<"Base", "Greet">>, "admin">>}
    /\ registry["Base"]["Greet"].groups = {GroupEveryone}
    /\ registry["Base"]["Greet"].groupsCallers = {<<<<"Base", "Greet">>, "admin">>}

\* C22: grants, revocations and checks of one method exclude each other
\* under the method's mutex. No goroutine is inside AllowGroup or RevokeGroup
\* together with another writer or with a reader. When a writer is about to
\* unlock, the method is exactly what the whole AllowGroup or RevokeGroup
\* makes of the method it found when it took the lock, so the policy goes
\* through the results of a serial order of the calls. While a check holds
\* the read lock the method is the one it found, and what it has read of the
\* group and of the callers of the group is that method's: a check never
\* sees the group removed with a pair of the group that existed before the
\* revoke still present.
C22_SerialGrants ==
    /\ \A t \in Threads :
          /\ thr[t].pc \in {"body", "loop", "unlock"} <=> mutex.w = t
          /\ thr[t].pc \in {"read1", "read2", "runlock"} <=> t \in mutex.r
    /\ mutex.w # NoThread => mutex.r = {}
    /\ \A t \in Threads :
          thr[t].pc = "unlock" =>
             Locked(registry) =
                IF thr[t].op = "grant"
                THEN allowGroup(thr[t].snap, LockGroup, thr[t].callers)
                ELSE revokeGroup(thr[t].snap, LockGroup)
    /\ \A t \in mutex.r :
          /\ Locked(registry) = thr[t].snap
          /\ thr[t].pc \in {"read2", "runlock"} =>
                thr[t].sawGroup = (LockGroup \in thr[t].snap.groups)
          /\ thr[t].pc = "runlock" =>
                thr[t].sawCallers =
                   {cg[1] : cg \in {x \in thr[t].snap.groupsCallers
                                       : x[2] = LockGroup}}

\* One goroutine is halfway through RevokeGroup (the group and one of its two
\* pairs are gone, the other pair is still there) while another goroutine
\* waits for the read lock to check and a third waits to grant.
C22_Witness ==
    \E t, u, v \in Threads :
       /\ thr[t].op = "revoke" /\ thr[t].pc = "loop"
       /\ LockGroup \in thr[t].snap.groups
       /\ Cardinality(thr[t].snap.groupsCallers) = 2
       /\ LockGroup \notin Locked(registry).groups
       /\ Cardinality(Locked(registry).groupsCallers) = 1
       /\ thr[u].op = "check" /\ thr[u].pc = "rlock"
       /\ thr[v].op = "grant" /\ thr[v].pc = "lock"


\* C23: the position in the chain of layers belongs to one invocation. Every
\* frame entered by a call by name, also one entered from inside a
\* contribution of the same method, runs the top layer of the method, and
\* every frame entered by Super runs the layer registered immediately before
\* the layer of the frame beneath it, so a nested invocation walks the whole
\* chain again. Whatever frames a goroutine has pushed and popped, Super from
\* its executing layer leads to the layer registered immediately before that
\* layer, and a step of one goroutine leaves the frames of the other as they
\* were.
C23_CursorPerInvocation ==
    /\ [](\A t \in Invocations :
             /\ \A i \in 1..Len(stacks[t]) :
                   IF stacks[t][i].via = "call"
                   THEN stacks[t][i].layer =
                           methodOf(registry, layers, stacks[t][i].layer).topLayer
                   ELSE /\ i > 1
                        /\ stacks[t][i].layer =
                              RegisteredBefore(stacks[t][i - 1].layer)
             /\ stacks[t] # << >> =>
                   Super(registry, layers, stacks[t]).layer =
                      RegisteredBefore(stacks[t][Len(stacks[t])].layer))
    /\ [][\A t, u \in Invocations :
             t # u /\ stacks'[t] # stacks[t] => stacks'[u] = stacks[u]]_vars

\* One goroutine went from the top layer down one layer, called the method
\* again from there and went down one layer again; the other goroutine is
\* still in the top layer.
C23_Witness ==
    \E t, u \in Invocations :
       /\ Len(stacks[t]) = 4
       /\ <<stacks[t][1].via, stacks[t][2].via, stacks[t][3].via,
            stacks[t][4].via>> = <<"call", "super", "call", "super">>
       /\ stacks[t][3].layer = stacks[t][1].layer
       /\ stacks[t][4].layer = stacks[t][2].layer
       /\ RegisteredBefore(stacks[t][4].layer) # NilLayer
       /\ Len(stacks[u]) = 1


\* C27: for the same method, records and arguments, CallMulti returns every
\* value the function of the top layer returns, in order, and Call returns
\* exactly the first of them; a top layer that builds its value from Super
\* gives the caller that value: "Hello" extended by "Hi, " + Super() is
\* "Hi, Hello".
C27_CallFirstOfCallMulti ==
    outcome.name # "" =>
       \E rc \in {[model |-> "User", ids |-> outcome.ids]} :
       \E all \in {callMulti(registry, layers, bootstrapped, GroupEveryone,
                             rc, outcome.name, outcome.args)},
          one \in {call(registry, layers, bootstrapped, GroupEveryone,
                        rc, outcome.name, outcome.args)} :
          /\ outcome.vals = IF outcome.multi THEN all.vals ELSE one.vals
          /\ outcome.err = all.err /\ outcome.err = one.err
          /\ all.err = "ok" =>
                /\ Len(all.vals) =
                      Len(FnctType(layers[registry["User"][outcome.name].topLayer]
                                      .funcValue).out)
                /\ one.vals = <<all.vals[1]>>
                /\ outcome.name = "Pair" =>
                      all.vals = <<Value("string", "Hello", << >>),
                                   Value("int", "7", << >>)>>
                /\ /\ outcome.name = "Greet"
                   /\ Len(layers) = 2
                   /\ layers[1].funcValue = "eHello"
                   /\ layers[2].funcValue = "eHi"
                   => all.vals = <<Value("string", "Hi, Hello", << >>)>>

\* Greet was declared returning "Hello" and extended with "Hi, " + Super(),
\* Pair was declared too, and Call on Greet gave "Hi, Hello", the function
\* of the base layer having run under the one of the extension.
C27_Witness ==
    /\ outcome.err = "ok"
    /\ outcome.name = "Greet" /\ ~outcome.multi
    /\ outcome.vals = <<Value("string", "Hi, Hello", << >>)>>
    /\ Len(outcome.log) = 3
    /\ "Pair" \in DOMAIN registry["User"]

\* C24: Super hands the next layer exactly the records and the arguments
\* the calling layer passes to it, which need not be those the calling layer
\* received. Whenever a layer called Super, the function that ran next is
\* the one of the layer registered immediately before it, and it received the
\* records and arguments passed to Super; a layer that calls Super on Jane
\* and John among its records makes the layer beneath run on those only: on
\* all users, names beneath such a layer give "Jane A. SmithJohn Smith".
C24_SuperPassesItsArguments ==
    /\ \A i \in 1..Len(outcome.log) :
          outcome.log[i].ev = "super" =>
             /\ i < Len(outcome.log)
             /\ outcome.log[i + 1].ev = "run"
             /\ outcome.log[i + 1].layer = RegisteredBefore(outcome.log[i].layer)
             /\ outcome.log[i + 1].ids = outcome.log[i].ids
             /\ outcome.log[i + 1].args = outcome.log[i].args
             /\ layers[outcome.log[i].layer].funcValue = "eSubset" =>
                   \E j \in 1..(i - 1) :
                      /\ outcome.log[j].ev = "run"
                      /\ outcome.log[j].layer = outcome.log[i].layer
                      /\ outcome.log[i].ids =
                            SelectSeq(outcome.log[j].ids,
                                      LAMBDA id : id \in {1, 2})
    /\ /\ outcome.name = "Greet"
       /\ outcome.ids = <<1, 2, 3>>
       /\ Len(layers) = 2
       /\ layers[1].funcValue = "eNames"
       /\ layers[2].funcValue = "eSubset"
       => outcome.vals = <<Value("string", "Jane A. SmithJohn Smith", << >>)>>

\* Greet returning the names of its records was extended by a function that
\* calls Super on Jane and John, and was called on the three users: the
\* function beneath ran on two records where the one above had three.
C24_Witness ==
    /\ outcome.name = "Greet"
    /\ outcome.err = "ok"
    /\ outcome.vals = <<Value("string", "Jane A. SmithJohn Smith", << >>)>>
    /\ Len(outcome.log) = 3
    /\ outcome.log[1].ids = <<1, 2, 3>>
    /\ outcome.log[2].ev = "super"
    /\ outcome.log[3].ids = <<1, 2>>


\* C25: a panic raised by the function of a layer, the top one or one
\* reached through Super, reaches the caller as it was raised. When a
\* function that panics with "Boom" has run, the call ends with the panic
\* "Boom" and without values; the write that function made before it
\* panicked is the last thing that happened, so no function ran after the
\* panic; no function ran twice; and the layers above that wrote before they
\* called Super keep that write and never make their second one.
C25_PanicReachesCaller ==
    LET log == outcome.log
        Boomed == {i \in 1..Len(log) :
                      /\ log[i].ev = "run"
                      /\ layers[log[i].layer].funcValue = "eBoom"}
    IN /\ Boomed # {} =>
             /\ outcome.err = "Boom"
             /\ outcome.vals = << >>
             /\ log[Len(log)].ev = "write"
             /\ \A i \in Boomed : i = Len(log) - 1
             /\ layers[log[Len(log)].layer].funcValue = "eBoom"
             /\ \A i \in 1..Len(log) :
                   /\ log[i].ev = "run"
                   /\ layers[log[i].layer].funcValue = "eLog"
                   => Cardinality({j \in 1..Len(log) :
                                      /\ log[j].ev = "write"
                                      /\ log[j].layer = log[i].layer}) = 1
       /\ outcome.err = "Boom" => Boomed # {}
       /\ \A i, j \in 1..Len(log) :
             /\ log[i].ev = "run" /\ log[j].ev = "run"
             /\ log[i].layer = log[j].layer
             => i = j

\* The function that panics is the base of Greet, under a function that
\* writes before and after Super and under a third one: the call ended with
\* "Boom", two functions had run before the one that panicked, and the write
\* made above it is still there.
C25_Witness ==
    /\ outcome.name = "Greet"
    /\ outcome.err = "Boom"
    /\ Cardinality({i \in 1..Len(outcome.log) : outcome.log[i].ev = "run"}) = 3
    /\ \E i \in 1..Len(outcome.log) :
          /\ outcome.log[i].ev = "write"
          /\ layers[outcome.log[i].layer].funcValue = "eLog"


C32_EveryLayerMatchesBottom ==
    \A m \in Models : \A n \in DOMAIN registry[m] :
       \E ch \in {Chain(registry[m][n])} :
          \A i \in 1..Len(ch) :
             SigAccepts(FirstType(ch), FnctType(layers[ch[i]].funcValue), 2)


\* C33: a NewMethod that fails leaves the table of the model, the tables of
\* the other models, the layers and the grants as they were, and the same
\* NewMethod made again fails in the same way.
C33_FailedDeclareChangesNothing ==
    \A m \in Models : \A n \in MethodNames : \A f \in Fncts :
       \E d \in {NewMethod(registry, layers, bootstrapped, m, n, f)} :
          d.err # "ok" =>
             /\ d.reg = registry
             /\ d.layers = layers
             /\ NewMethod(d.reg, d.layers, bootstrapped, m, n, f).err = d.err



\* C34: a lookup of a name the entity holds finds it and changes nothing.
\* Before bootstrap, a lookup of a name the entity lacks and a model of its
\* mixin chain holds is "found" and installs a layerless copy, with the
\* provider's type and the default policy of the name, in the entity and in
\* each mixin between the entity and the provider, and changes nothing else;
\* a name found nowhere is "not found" and no table changes.  After
\* bootstrap no lookup changes a table and a name absent from the entity's
\* own table is "not found".
C34_LookupSideEffects ==
    \A m \in Models : \A n \in MethodNames :
       \E g \in {get(registry, bootstrapped, m, n)} :
          LET RECURSIVE AncFrom(_, _)
              AncFrom(x, i) ==
                 IF i > Len(mixins(x)) THEN << >>
                 ELSE <<mixins(x)[i]>> \o AncFrom(mixins(x)[i], 1)
                                       \o AncFrom(x, i + 1)
              anc == AncFrom(m, 1)
              providers == {j \in 1..Len(anc) : n \in DOMAIN registry[anc[j]]}
              p == CHOOSE j \in providers : \A k \in providers : j <= k
              onTheWay == {m} \cup {anc[j] : j \in 1..(p - 1)}
              copy(x) == [name |-> n, model |-> x,
                          methodType |-> registry[anc[p]][n].methodType,
                          topLayer |-> NilLayer, nextLayer |-> {},
                          groups |-> IF n \in unauthorizedMethods
                                     THEN {} ELSE {GroupEveryone},
                          groupsCallers |-> {}]
          IN  IF n \in DOMAIN registry[m]
              THEN g.found /\ g.reg = registry
              ELSE IF bootstrapped[m]
              THEN ~g.found /\ g.reg = registry
              ELSE IF providers = {}
              THEN ~g.found /\ g.reg = registry
              ELSE /\ g.found
                   /\ \A x \in Models :
                         IF x \in onTheWay
                         THEN /\ DOMAIN g.reg[x] = DOMAIN registry[x] \cup {n}
                              /\ g.reg[x][n] = copy(x)
                              /\ \A k \in DOMAIN registry[x] :
                                    g.reg[x][k] = registry[x][k]
                         ELSE g.reg[x] = registry[x]

\* A lookup of Greet on User has gone through Addr to Base: both hold a
\* layerless copy of the method Base declared.
C34_Witness ==
    /\ lastOp = "get"
    /\ lastErr = "ok"
    /\ ~bootstrapped["User"]
    /\ "Greet" \in DOMAIN registry["Base"]
    /\ registry["Base"]["Greet"].topLayer # NilLayer
    /\ "Greet" \in DOMAIN registry["Addr"]
    /\ registry["Addr"]["Greet"].topLayer = NilLayer
    /\ "Greet" \in DOMAIN registry["User"]
    /\ registry["User"]["Greet"].topLayer = NilLayer
    /\ registry["User"]["Greet"].groups = {GroupEveryone}


\* ------------------------------------------------------------------------
\* Policies of a mixin's method and of its copies
\* ------------------------------------------------------------------------

\* The specification of the policies before bootstrap: Base declares Greet
\* and Write, modules look them up on User (through Addr), and grants and
\* revocations are made on Base and on User.
NextMixinPolicy ==
    \/ \E n \in MethodNames : Declare("Base", n, "fBase")
    \/ \E n \in MethodNames : Lookup("User", n)
    \/ \E m \in {"Base", "User"}, n \in MethodNames,
          cs \in {{}, {<<"Base", "Greet">>}} : GrantOp(m, n, "admin", cs)
    \/ \E m \in {"Base", "User"}, n \in MethodNames, g \in Groups :
          RevokeOp(m, n, g)

SpecMixinPolicy == Init /\ [][NextMixinPolicy]_vars

\* C35: a method materialized on a model from a mixin has exactly the
\* default policy of its name (GroupEveryone unless the name is one of
\* unauthorizedMethods, no caller-scoped grant), whatever the policy of the
\* mixin's method; and a grant or a revocation changes the policy of at most
\* one of the methods that existed before it, so that the mixin's method and
\* its copies never change together.
C35_CopyPolicyIndependent ==
    /\ [](\A m \in Models : \A n \in MethodNames :
             \E g \in {get(registry, bootstrapped, m, n)} :
                (n \notin DOMAIN registry[m] /\ g.found) =>
                   \A x \in Models :
                      (n \in DOMAIN g.reg[x] /\ n \notin DOMAIN registry[x]) =>
                         /\ g.reg[x][n].groups =
                               (IF n \in unauthorizedMethods
                                THEN {} ELSE {GroupEveryone})
                         /\ g.reg[x][n].groupsCallers = {})
    /\ [][LET Policy(reg, m, n) ==
                 <<reg[m][n].groups, reg[m][n].groupsCallers>>
              Changed ==
                 {mn \in Models \X MethodNames :
                     /\ mn[2] \in DOMAIN registry[mn[1]]
                     /\ mn[2] \in DOMAIN registry'[mn[1]]
                     /\ Policy(registry', mn[1], mn[2])
                           # Policy(registry, mn[1], mn[2])}
          IN  /\ \A m \in Models : DOMAIN registry[m] \subseteq DOMAIN registry'[m]
              /\ IF lastOp' \in {"grant", "revoke"}
                 THEN Cardinality(Changed) <= 1
                 ELSE Changed = {}]_vars

\* Base.Greet has lost GroupEveryone and got "admin" grants, then a lookup
\* materialized Greet on User with the default policy, and a later grant on
\* User's copy left Base's method as it was.
C35_Witness ==
    /\ lastOp = "grant"
    /\ lastErr = "ok"
    /\ "Greet" \in DOMAIN registry["Base"]
    /\ registry["Base"]["Greet"].groups = {}
    /\ registry["Base"]["Greet"].groupsCallers = {<<<<"Base", "Greet">>, "admin">>}
    /\ "Greet" \in DOMAIN registry["Addr"]
    /\ registry["Addr"]["Greet"].groups = {GroupEveryone}
    /\ registry["Addr"]["Greet"].groupsCallers = {}
    /\ "Greet" \in DOMAIN registry["User"]
    /\ registry["User"]["Greet"].groups = {GroupEveryone, "admin"}
    /\ registry["User"]["Greet"].groupsCallers = {}
    /\ "Write" \in DOMAIN registry["User"]
    /\ registry["User"]["Write"].groups = {}


\* C36: every entry of a model's registry is stored under the name of the
\* method and belongs to that model, and set given a method of another
\* model fails and leaves every registry as it was.
C36_EntriesUnderOwnNameAndModel ==
    /\ \A m \in Models : \A k \in DOMAIN registry[m] :
          /\ registry[m][k].name = k
          /\ registry[m][k].model = m
    /\ \A m \in Models : \A x \in Models \ {m} : \A k \in DOMAIN registry[x] :
          \E s \in {set(registry, m, k, registry[x][k])} :
             /\ s.err = "SetOtherModel"
             /\ s.reg = registry

\* After bootstrap the three models hold Greet, each under its own model,
\* User's and Addr's entries having been made from Base's.
C36_Witness ==
    /\ bootstrapped["User"]
    /\ lastOp = "bootstrap"
    /\ \A m \in Models :
          /\ "Greet" \in DOMAIN registry[m]
          /\ registry[m]["Greet"].model = m
          /\ registry[m]["Greet"].name = "Greet"
    /\ \A l \in 1..Len(layers) : layers[l].method[1] = "Base" \/ layers[l].mixedIn
    /\ Len(layers) >= 3


\* C37: the function of a layer that is not variadic and takes k arguments
\* after the record set, applied through its wrapper to a number of
\* arguments other than k, panics before its body runs: no value is
\* returned and no layer has run; and a call of a method with such a number
\* of arguments has ended that way.
C37_WrongCountFailsBeforeBody ==
    /\ \A l \in 1..Len(layers) : \A args \in EvalArgs :
          \E ft \in {FnctType(layers[l].funcValue)} :
             (~ft.variadic /\ Len(args) # Len(ft.in) - 1) =>
                \E r \in {wrapFunctionForMethodLayer(
                             registry, layers, l,
                             [model |-> layers[l].method[1], ids |-> <<1, 2, 3>>],
                             args, << >>)} :
                   /\ r.err = (IF Len(args) < Len(ft.in) - 1
                               THEN "IndexOutOfRange" ELSE "reflect")
                   /\ r.vals = << >>
                   /\ r.log = << >>
    /\ (/\ outcome.name \in DOMAIN registry["User"]
        /\ registry["User"][outcome.name].topLayer # NilLayer
        /\ \E ft \in {FnctType(layers[registry["User"][outcome.name].topLayer]
                                  .funcValue)} :
              ~ft.variadic /\ Len(outcome.args) # Len(ft.in) - 1)
       => /\ outcome.err \in {"IndexOutOfRange", "reflect"}
          /\ outcome.vals = << >>
          /\ outcome.log = << >>

\* Tag, which takes one string, has been called with two: the call panicked
\* in reflect and nothing ran.
C37_Witness ==
    /\ outcome.name = "Tag"
    /\ Len(outcome.args) = 2
    /\ outcome.err = "reflect"
    /\ outcome.log = << >>
    /\ "Tag" \in DOMAIN registry["User"]
    /\ layers[registry["User"]["Tag"].topLayer].funcValue = "eTag"


\* ------------------------------------------------------------------------
\* Conditions
\* ------------------------------------------------------------------------

\* The number of Condition values a run makes.
MaxConds == 6

\* predicate{exprs, operator, arg, cond, isOr, isNot, isCond}; cond is the
\* address of a Condition (its index in conds), 0 for nil.
predicate(exprs, operator, arg, cond, isOr, isNot, isCond) ==
    [exprs |-> exprs, operator |-> operator, arg |-> arg, cond |-> cond,
     isOr |-> isOr, isNot |-> isNot, isCond |-> isCond]

\* c.predicates read through the slice header of the Condition c: the first
\* len elements of its array.
predicates(arrs, c) ==
    IF c.arr = 0 THEN << >> ELSE SubSeq(arrs[c.arr], 1, c.len)

\* append(c.predicates, p) on the copy c of a Condition: when the array has
\* room beyond len the predicate is written into it, where every other
\* Condition on that array sees it; else a new array of twice the capacity
\* (of one element for a nil slice) gets the elements and p.
append(arrs, c, p) ==
    LET cap == IF c.arr = 0 THEN 0 ELSE Len(arrs[c.arr]) IN
    IF c.len < cap
    THEN [arrs |-> [arrs EXCEPT ![c.arr][c.len + 1] = p],
          c |-> [arr |-> c.arr, len |-> c.len + 1]]
    ELSE [arrs |-> Append(arrs,
                     [i \in 1..(IF cap = 0 THEN 1 ELSE 2 * cap) |->
                        IF i <= c.len THEN arrs[c.arr][i]
                        ELSE IF i = c.len + 1 THEN p
                        ELSE predicate(<< >>, "", Value("nil", "", << >>), 0,
                                       FALSE, FALSE, FALSE)]),
          c |-> [arr |-> Len(arrs) + 1, len |-> c.len + 1]]

\* (*Condition).IsEmpty of the Condition at address i.
RECURSIVE IsEmpty(_, _, _)
IsEmpty(arrs, cs, i) ==
    IF i = 0 THEN TRUE
    ELSE \E ps \in {predicates(arrs, cs[i])} :
            \/ Len(ps) = 0
            \/ Len(ps) = 1 /\ ps[1].cond # 0 /\ IsEmpty(arrs, cs, ps[1].cond)

\* c.AndCond(cond): (c) AND (cond).  c is the copy of the receiver.
AndCond(arrs, cs, c, cond) ==
    IF ~IsEmpty(arrs, cs, cond)
    THEN append(arrs, c, predicate(<< >>, "", Value("nil", "", << >>), cond,
                                   FALSE, FALSE, TRUE))
    ELSE [arrs |-> arrs, c |-> c]

\* c.AndNotCond(cond): (c) AND NOT (cond).
AndNotCond(arrs, cs, c, cond) ==
    IF ~IsEmpty(arrs, cs, cond)
    THEN append(arrs, c, predicate(<< >>, "", Value("nil", "", << >>), cond,
                                   FALSE, TRUE, TRUE))
    ELSE [arrs |-> arrs, c |-> c]

\* c.OrCond(cond): (c) OR (cond).
OrCond(arrs, cs, c, cond) ==
    IF ~IsEmpty(arrs, cs, cond)
    THEN append(arrs, c, predicate(<< >>, "", Value("nil", "", << >>), cond,
                                   TRUE, FALSE, TRUE))
    ELSE [arrs |-> arrs, c |-> c]

\* c.OrNotCond(cond): (c) OR NOT (cond).
OrNotCond(arrs, cs, c, cond) ==
    IF ~IsEmpty(arrs, cs, cond)
    THEN append(arrs, c, predicate(<< >>, "", Value("nil", "", << >>), cond,
                                   TRUE, TRUE, TRUE))
    ELSE [arrs |-> arrs, c |-> c]

\* Operator.IsMulti: the operators that take a list.
IsMulti(op) == op \in {"in", "not in"}

\* sanitizeArgs: a record set becomes its ids for a multi operator, else its
\* only id, nil when it is empty, a panic when it holds several records;
\* any other argument is returned as it is.
sanitizeArgs(args, multi) ==
    IF args.k # "rs" THEN args
    ELSE IF multi THEN Value("slice", "", args.l)
    ELSE IF Len(args.l) > 1 THEN Value("panic", "", << >>)
    ELSE IF Len(args.l) = 0 THEN Value("nil", "", << >>)
    ELSE Value("int", args.l[1], << >>)

\* ConditionField.AddOperator on the ConditionField cf: a multi operator
\* given an empty list makes the predicates of the result the one predicate
\* ID = -1; else the predicate is appended with the flags of cf.cs.
AddOperator(arrs, cf, op, data) ==
    LET d == sanitizeArgs(data, IsMulti(op)) IN
       IF d.k = "panic"
       THEN [arrs |-> arrs, c |-> cf.cs.cond, err |-> "NotSingleton"]
       ELSE IF d.k # "nil" /\ IsMulti(op) /\ d.k = "slice" /\ Len(d.l) = 0
       THEN [arrs |-> Append(arrs,
                        <<predicate(<<"ID">>, "=", Value("int", "-1", << >>),
                                    0, FALSE, FALSE, FALSE)>>),
             c |-> [arr |-> Len(arrs) + 1, len |-> 1], err |-> "ok"]
       ELSE The({[arrs |-> r.arrs, c |-> r.c, err |-> "ok"]
                 : r \in {append(arrs, cf.cs.cond,
                                 predicate(cf.exprs, op, d, 0, cf.cs.nextIsOr,
                                           cf.cs.nextIsNot, FALSE))}})

\* A module derives a Condition from the one at address i with AndCond,
\* AndNotCond, OrCond or OrNotCond and the Condition at address j.
DeriveCond(op, i, j) ==
    /\ Len(conds) < MaxConds
    /\ \E r \in {CASE op = "AndCond" -> AndCond(backing, conds, conds[i], j)
                   [] op = "AndNotCond" -> AndNotCond(backing, conds, conds[i], j)
                   [] op = "OrCond" -> OrCond(backing, conds, conds[i], j)
                   [] OTHER -> OrNotCond(backing, conds, conds[i], j)} :
       /\ backing' = r.arrs
       /\ conds' = Append(conds, r.c)
    /\ UNCHANGED <<registry, layers, bootstrapped, dispatchVars, lastOp,
                   lastErr, mutex, thr, stacks, outcome, views, orderedViews>>

\* A module derives a Condition from the one at address i with
\* And() / Or() / AndNot() / OrNot(), Field(f) and an operator method.
DeriveField(i, isOr, isNot, f, op, data) ==
    /\ Len(conds) < MaxConds
    /\ \E r \in {AddOperator(backing,
                             [cs |-> [cond |-> conds[i], nextIsOr |-> isOr,
                                      nextIsNot |-> isNot],
                              exprs |-> <<f>>], op, data)} :
       /\ backing' = r.arrs
       /\ conds' = IF r.err = "ok" THEN Append(conds, r.c) ELSE conds
    /\ UNCHANGED <<registry, layers, bootstrapped, dispatchVars, lastOp,
                   lastErr, mutex, thr, stacks, outcome, views, orderedViews>>

\* The specification of the conditions: from the empty Condition, modules
\* derive Conditions from the ones made so far.
NextCond ==
    \/ \E i \in 1..Len(conds), j \in (1..Len(conds)) \cap {2} :
          DeriveCond("AndCond", i, j)
    \/ \E i \in 1..Len(conds), j \in (1..Len(conds)) \cap {2} :
          DeriveCond("AndNotCond", i, j)
    \/ \E i \in 1..Len(conds), j \in (1..Len(conds)) \cap {2} :
          DeriveCond("OrCond", i, j)
    \/ \E i \in 1..Len(conds), j \in (1..Len(conds)) \cap {2} :
          DeriveCond("OrNotCond", i, j)
    \/ \E i \in 1..Len(conds) :
          \/ DeriveField(i, FALSE, FALSE, "name", "=", Value("string", "a", << >>))
          \/ DeriveField(i, TRUE, TRUE, "age", "in", Value("slice", "", <<"1">>))
          \/ DeriveField(i, TRUE, FALSE, "age", "in", Value("slice", "", << >>))

SpecCond == Init /\ [][NextCond]_vars

\* C38: a derivation leaves every Condition made before it with the
\* predicates it had.
C38_ConditionsPersistent ==
    [][\A i \in 1..Len(conds) :
          /\ i <= Len(conds')
          /\ predicates(backing', conds'[i]) = predicates(backing, conds[i])]_vars

\* C39: AddOperator on a field of a Condition, whatever the pending OR and
\* NOT flags, the operator and the argument (a value, nil, a list, empty or
\* not, a record set of at most one record), gives the predicates of the
\* Condition, in order, followed by one predicate of that field and operator
\* carrying the flags.
C39_AddOperatorAppendsOne ==
    \A i \in 1..Len(conds) : \A isOr \in BOOLEAN : \A isNot \in BOOLEAN :
       \A op \in {"=", "in", "not in"} :
          \A data \in {Value("nil", "", << >>), Value("string", "a", << >>),
                       Value("slice", "", << >>), Value("slice", "", <<"1">>),
                       Value("rs", "", << >>), Value("rs", "", <<"1">>)} :
             \E r \in {AddOperator(backing,
                                   [cs |-> [cond |-> conds[i], nextIsOr |-> isOr,
                                            nextIsNot |-> isNot],
                                    exprs |-> <<"name">>], op, data)} :
                \E old \in {predicates(backing, conds[i])} :
                   \E new \in {predicates(r.arrs, r.c)} :
                      /\ r.err = "ok"
                      /\ Len(new) = Len(old) + 1
                      /\ SubSeq(new, 1, Len(old)) = old
                      /\ new[Len(new)].exprs = <<"name">>
                      /\ new[Len(new)].operator = op
                      /\ new[Len(new)].isOr = isOr
                      /\ new[Len(new)].isNot = isNot
                      /\ ~new[Len(new)].isCond


\* ------------------------------------------------------------------------
\* Views
\* ------------------------------------------------------------------------

\* The number of views a run adds to the Collection.
MaxViews == 4

\* The conversion of an int to int8.
int8(x) == ((x + 128) % 256) - 128

\* Collection.Add: the index of the first view of the model with a greater
\* Priority (of the last view when there is none, 0 for an empty list) is
\* compared with the number of models of orderedViews less one; when equal
\* the view is appended, else it is inserted at the index.
Add(vs, ov, v) ==
    LET list == IF v.Model \in DOMAIN ov THEN ov[v.Model] ELSE << >>
        greater == {i \in 1..Len(list) : list[i].Priority > v.Priority}
        index == IF list = << >> THEN 0
                 ELSE IF greater = {} THEN int8(Len(list) - 1)
                 ELSE int8((CHOOSE i \in greater : \A k \in greater : i <= k) - 1)
        newList == IF index = int8(Cardinality(DOMAIN ov) - 1)
                   THEN Append(list, v)
                   ELSE SubSeq(list, 1, index) \o <<v>>
                           \o SubSeq(list, index + 1, Len(list))
    IN [views |-> [id \in DOMAIN vs \cup {v.ID} |->
                      IF id = v.ID THEN v ELSE vs[id]],
        orderedViews |-> [m \in DOMAIN ov \cup {v.Model} |->
                             IF m = v.Model THEN newList ELSE ov[m]]]

\* Collection.GetFirstViewForModel: the first view of the type in the list
\* of the model, or the default view of the model and type.
GetFirstViewForModel(ov, model, viewType) ==
    LET list == IF model \in DOMAIN ov THEN ov[model] ELSE << >>
        typed == {i \in 1..Len(list) : list[i].Type = viewType}
    IN IF typed = {}
       THEN [ID |-> "", Model |-> model, Type |-> viewType, Priority |-> 0]
       ELSE list[CHOOSE i \in typed : \A k \in typed : i <= k]

\* A module adds a new view to the Collection.
AddView(model, viewType, priority) ==
    /\ Cardinality(DOMAIN views) < MaxViews
    /\ \E r \in {Add(views, orderedViews,
                     [ID |-> "v" \o ToString(Cardinality(DOMAIN views) + 1),
                      Model |-> model, Type |-> viewType,
                      Priority |-> priority])} :
       /\ views' = r.views
       /\ orderedViews' = r.orderedViews
    /\ UNCHANGED <<registry, layers, bootstrapped, dispatchVars, lastOp,
                   lastErr, mutex, thr, stacks, outcome, backing, conds>>

\* The specification of the views: modules add form and tree views of two
\* models, with the default Priority 16 or another one.
NextViews ==
    \E model \in {"User", "Addr"}, viewType \in {"form", "tree"},
       priority \in {8, 16, 32} : AddView(model, viewType, priority)

SpecViews == Init /\ [][NextViews]_vars

\* C40: the list of views of each model is sorted by non-decreasing
\* Priority and holds each view added for the model exactly once, and
\* GetFirstViewForModel returns a view of the type whose Priority is the
\* lowest among the views of the model of that type.
C40_ViewsSortedByPriority ==
    \A m \in DOMAIN orderedViews :
       \E list \in {orderedViews[m]} :
          /\ \A i \in 1..(Len(list) - 1) :
                list[i].Priority <= list[i + 1].Priority
          /\ \A id \in DOMAIN views :
                views[id].Model = m =>
                   Cardinality({i \in 1..Len(list) : list[i] = views[id]}) = 1
          /\ \A i \in 1..Len(list) :
                list[i].ID \in DOMAIN views /\ views[list[i].ID] = list[i]
          /\ \A t \in {"form", "tree"} :
                \A i \in 1..Len(list) :
                   list[i].Type = t =>
                      \E g \in {GetFirstViewForModel(orderedViews, m, t)} :
                         g.Type = t /\ g.ID # "" /\ g.Priority <= list[i].Priority

====
